---- MODULE Spec2Model ----
(***************************************************************************)
(* A model of the in-process multi-agent RAG pipeline: the MCP message     *)
(* protocol and router (agents/mcp.py), the Coordinator's two workflows    *)
(* (agents/coordinator_agent.py), the Ingestion, Retrieval and LLM         *)
(* response agents, and the vector store (utils/vector_store.py).          *)
(*                                                                         *)
(* Abstractions.  A uuid is a fresh integer.  A document's bytes are the   *)
(* record [len, words]: the number of bytes and the number of whitespace-  *)
(* separated words its text holds.  An embedding is [dir, norm]: a         *)
(* direction and whether its norm is zero or one.  The libraries outside   *)
(* the repository (faiss, sklearn, the format parsers) may fail; whether   *)
(* they do is an input of the action that calls them.                      *)
(*                                                                         *)
(* Spec is the Coordinator with its agents; SpecRouter the router alone;   *)
(* SpecChunk the chunker alone; SpecRetrieval the Retrieval Agent and its  *)
(* vector store alone; SpecStore the vector store alone; SpecMessage the   *)
(* message alone; SpecEmbed the embedding generator alone; SpecThreads     *)
(* add_vector called from two threads; SpecLLM the template generator.     *)
(***************************************************************************)
EXTENDS Integers, Sequences, FiniteSets, TLC

VARIABLES
    router,             \* CoordinatorAgent.router: [message_history, trace_sessions]
    processed_documents,\* IngestionAgent.processed_documents: doc id -> document
    document_chunks,    \* RetrievalAgent.document_chunks: chunk id -> chunk record
    vector_store,       \* RetrievalAgent.vector_store: [index, metadata_store, id_to_index, index_to_id, next_index]
    pc,                 \* position of the coroutine CoordinatorAgent.handle_message
    request,            \* the message handle_message was called with
    ingestion_response, \* local of _handle_document_upload
    retrieval_response, \* local of _handle_document_upload / _handle_query_request
    llm_response,       \* local of _handle_query_request
    result,             \* the message handle_message returned
    handled,            \* per request: the <<agent, message>> pairs handed to a handle_message
    created,            \* per request: every message constructed, in construction order
    chunk_failures,     \* per request: the chunks whose embedding or insertion raised
    parser_calls,       \* per request: the parser types DocumentParser.parse was called with
    routed,             \* every message passed to route_message since the last clear_history
    next_uuid,          \* the uuids drawn so far
    nrequests,          \* the calls of the entry point so far
    text,               \* _chunk_text called on its own: the number of words of its text
    text_chunks,        \* _chunk_text called on its own: the list it returned
    store_call,         \* the last call made on the vector store directly: [op, vector_id, returned]
    store_history,      \* the add_vector and remove_vector calls made on the vector store directly
    faiss_ties,         \* the order in which the faiss of the build returns equal scores
    call,               \* the last call made on a function exercised on its own: [op, ..., returned]
    embedder,           \* a LocalEmbeddingGenerator on its own: [corpus, is_fitted, dimension]
    inserting           \* add_vector called from threads: [pc, placed, overlapped]

vars == <<router, processed_documents, document_chunks, vector_store, pc, request,
          ingestion_response, retrieval_response, llm_response, result, handled,
          created, chunk_failures, parser_calls, routed, next_uuid, nrequests, text,
          text_chunks, store_call, store_history, faiss_ties, call, embedder, inserting>>

\* the state of the workflows and of the chunker, which the components
\* exercised on their own leave alone
workflowVars ==
    <<router, processed_documents, document_chunks, pc, request, ingestion_response,
      retrieval_response, llm_response, result, handled, created, chunk_failures,
      parser_calls, routed, next_uuid, nrequests, text, text_chunks>>

\* the state that only the components exercised on their own use
aloneVars == <<store_history, faiss_ties, call, embedder, inserting>>

\* what a call made on the vector store directly leaves alone
notStoreVars == <<workflowVars, faiss_ties, call, embedder, inserting>>

\* what a call of a function exercised on its own leaves alone
notCallVars ==
    <<workflowVars, vector_store, store_call, store_history, faiss_ties, inserting>>

\* what a thread inserting into the vector store leaves alone
notThreadVars == <<workflowVars, store_call, store_history, faiss_ties, call, embedder>>

(***************************************************************************)
(* Bounds of the model.                                                    *)
(***************************************************************************)
MaxRequests == 2
MaxTraces == 2
MaxVectors == 6
MaxRouted == 4
MaxFailures == 1
MaxWords == 2600
MaxCalls == 3
MaxStored == 3
MaxStoreCalls == 3
MaxCorpus == 2
MaxContext == 2

(***************************************************************************)
(* Program constants.                                                      *)
(***************************************************************************)
ChunkSize == 1000
Overlap == 200
TopK == 5
Dimension == 1000
EmbeddingDimension == 1000
MaxFeatures == 1000
MaxChars == 2000

TraceIds == 1..MaxTraces

None == "None"
\* a local that holds no message yet
NoMessage ==
    [sender |-> "", receiver |-> "", type |-> "NONE", trace_id |-> 0,
     payload |-> [unset |-> TRUE]]

CoordinatorName == "CoordinatorAgent"
IngestionName == "IngestionAgent"
RetrievalName == "RetrievalAgent"
LLMName == "LLMResponseAgent"
UIName == "UI"

(***************************************************************************)
(* agents/mcp.py                                                           *)
(***************************************************************************)
MCPMessage(sender, receiver, type, trace_id, payload) ==
    [sender |-> sender, receiver |-> receiver, type |-> type,
     trace_id |-> trace_id, payload |-> payload]

\* a create_response_message that starts a trace of its own
create_response_message_own_trace(original_message, sender, message_type, payload) ==
    MCPMessage(sender, original_message.sender, message_type, 0, payload)

create_response_message(original_message, sender, message_type, payload) ==
    MCPMessage(sender, original_message.sender, message_type,
               original_message.trace_id, payload)

create_error_message(original_message, sender, error) ==
    create_response_message(original_message, sender, "ERROR",
        [error |-> error, original_type |-> original_message.type])

MCPRouter == [message_history |-> <<>>, trace_sessions |-> <<>>]

\* A router that restarts the trace session on every message.
route_message_overwrite(r, message) ==
    [message_history |-> Append(r.message_history, message),
     trace_sessions |->
        [t \in DOMAIN r.trace_sessions \cup {message.trace_id} |->
            IF t = message.trace_id THEN <<message>> ELSE r.trace_sessions[t]]]

route_message(r, message) ==
    LET sessions == IF message.trace_id \notin DOMAIN r.trace_sessions
                    THEN [t \in DOMAIN r.trace_sessions \cup {message.trace_id} |->
                            IF t = message.trace_id THEN <<>> ELSE r.trace_sessions[t]]
                    ELSE r.trace_sessions
    IN  [message_history |-> Append(r.message_history, message),
         trace_sessions |->
            [sessions EXCEPT ![message.trace_id] = Append(@, message)]]

get_trace_history(r, trace_id) ==
    IF trace_id \in DOMAIN r.trace_sessions THEN r.trace_sessions[trace_id] ELSE <<>>

\* a clear_history that forgets the global log only
clear_history_keep_sessions(r) == [r EXCEPT !.message_history = <<>>]

\* a clear_history that forgets the trace sessions only
clear_history_keep_history(r) == [r EXCEPT !.trace_sessions = <<>>]

clear_history(r) == [message_history |-> <<>>, trace_sessions |-> <<>>]

(***************************************************************************)
(* Python helpers.                                                         *)
(***************************************************************************)
\* datetime.now().isoformat() at tick now of the clock
isoformat(now) == "2026-01-01T00:00:0" \o ToString(now)

\* the dataclass with its timestamp field: __post_init__ fills it in from the
\* clock when it is None
MCPMessageAt(sender, receiver, type, trace_id, payload, timestamp, now) ==
    [sender |-> sender, receiver |-> receiver, type |-> type, trace_id |-> trace_id,
     payload |-> payload,
     timestamp |-> IF timestamp = "None" THEN isoformat(now) ELSE timestamp]

\* the payload keys of the model whose value is bytes (the uploaded file) and
\* those whose value is a tuple (the CSV parser's shape)
BytesKeys == {"file_content"}
PayloadTupleKeys == {"shape"}

\* json.dumps raises TypeError on bytes
to_json_raises(message) ==
    /\ "not_a_dict" \notin DOMAIN message.payload
    /\ DOMAIN message.payload \cap BytesKeys # {}

\* json.dumps(asdict(message)): the text, held as the value a parser reads from
\* it; a tuple is written as an array
to_json(message) ==
    [json |->
        [message EXCEPT !.payload =
            IF "not_a_dict" \in DOMAIN message.payload THEN message.payload
            ELSE [key \in DOMAIN message.payload |->
                    IF key \in PayloadTupleKeys
                    THEN [kind |-> "list", items |-> message.payload[key].items]
                    ELSE message.payload[key]]]]

\* cls(**json.loads(json_str)) at tick now of the clock
from_json(json_str, now) ==
    LET data == json_str.json IN
    MCPMessageAt(data.sender, data.receiver, data.type, data.trace_id, data.payload,
                 data.timestamp, now)

\* dict.get(key, default) on a payload that is a dict
Get(payload, key, default) == IF key \in DOMAIN payload THEN payload[key] ELSE default

\* A payload that is not a dict (None): payload.get raises AttributeError.
NonePayload == [not_a_dict |-> TRUE]
IsDict(payload) == "not_a_dict" \notin DOMAIN payload

\* str.endswith
EndsWith(s, suffix) ==
    /\ Len(s) >= Len(suffix)
    /\ SubSeq(s, Len(s) - Len(suffix) + 1, Len(s)) = suffix

\* s[i - 1]: the i-th character of a str
Char(s, i) == SubSeq(s, i, i)

\* s[from - 1:]
DropFirst(s, from) == SubSeq(s, from, Len(s))

Uppercase == "ABCDEFGHIJKLMNOPQRSTUVWXYZ"
Lowercase == "abcdefghijklmnopqrstuvwxyz"
Digits == "0123456789"

\* the place of character c in alphabet, 0 when it is not there
IndexIn(c, alphabet) ==
    IF \E i \in 1..Len(alphabet) : Char(alphabet, i) = c
    THEN CHOOSE i \in 1..Len(alphabet) : Char(alphabet, i) = c
    ELSE 0

LowerChar(c) ==
    LET i == IndexIn(c, Uppercase) IN IF i = 0 THEN c ELSE Char(Lowercase, i)

\* str.lower
RECURSIVE Lower(_)
Lower(s) ==
    IF s = "" THEN ""
    ELSE IF Len(s) = 1 THEN LowerChar(s)
    ELSE LET half == Len(s) \div 2 IN
         Lower(SubSeq(s, 1, half)) \o Lower(DropFirst(s, half + 1))

\* the characters \s matches and str.split and str.strip take for blanks
IsSpace(c) == c \in {" ", "\t", "\n"}

\* the characters \w matches
IsWordChar(c) == IndexIn(c, Uppercase \o Lowercase \o Digits \o "_") # 0

\* the length of the longest prefix of s made of blanks, and of non-blanks
SpanSpace(s) ==
    CHOOSE n \in 0..Len(s) :
        /\ \A i \in 1..n : IsSpace(Char(s, i))
        /\ n = Len(s) \/ ~IsSpace(Char(s, n + 1))

SpanNotSpace(s) ==
    CHOOSE n \in 0..Len(s) :
        /\ \A i \in 1..n : ~IsSpace(Char(s, i))
        /\ n = Len(s) \/ IsSpace(Char(s, n + 1))

\* the length of the longest suffix of s made of blanks
SpanSpaceEnd(s) ==
    CHOOSE n \in 0..Len(s) :
        /\ \A i \in (Len(s) - n + 1)..Len(s) : IsSpace(Char(s, i))
        /\ n = Len(s) \/ ~IsSpace(Char(s, Len(s) - n))

\* str.strip
LStrip(s) == DropFirst(s, SpanSpace(s) + 1)
RStrip(s) == SubSeq(s, 1, Len(s) - SpanSpaceEnd(s))
Strip(s) == RStrip(LStrip(s))

\* sub in s
Contains(sub, s) ==
    \E i \in 1..(Len(s) - Len(sub) + 1) : SubSeq(s, i, i + Len(sub) - 1) = sub

\* str.split(): the maximal runs of non-blank characters, in order
RECURSIVE Split(_)
Split(s) ==
    LET t == LStrip(s) IN
    IF t = "" THEN <<>>
    ELSE LET n == SpanNotSpace(t) IN <<SubSeq(t, 1, n)>> \o Split(DropFirst(t, n + 1))

\* set(sequence)
SetOf(sequence) == { sequence[i] : i \in 1..Len(sequence) }

\* min that returns its first argument
Min_first(a, b) == a

Min(a, b) == IF a <= b THEN a ELSE b

\* The words [from, to) of a document's text, joined by blanks.
Words(from, to) == [from |-> from, to |-> to]

(***************************************************************************)
(* agents/ingestion_agent.py                                               *)
(***************************************************************************)
\* an extension chain whose last branch takes every other name as text
ParserType_default_text(file_name) ==
    LET n == Lower(file_name) IN
    IF EndsWith(n, ".pdf") THEN "pdf"
    ELSE IF EndsWith(n, ".pptx") THEN "pptx"
    ELSE IF EndsWith(n, ".docx") THEN "docx"
    ELSE IF EndsWith(n, ".csv") THEN "csv"
    ELSE "text"

\* The file-extension chain of _parse_document; None when it raises ValueError.
ParserType(file_name) ==
    LET n == Lower(file_name) IN
    IF EndsWith(n, ".pdf") THEN "pdf"
    ELSE IF EndsWith(n, ".pptx") THEN "pptx"
    ELSE IF EndsWith(n, ".docx") THEN "docx"
    ELSE IF EndsWith(n, ".csv") THEN "csv"
    ELSE IF EndsWith(n, ".txt") \/ EndsWith(n, ".md") THEN "text"
    ELSE None

\* the loop of _chunk_text without its break: every offset below nwords is emitted
RECURSIVE ChunkLoop_no_break(_, _, _, _, _, _, _)
ChunkLoop_no_break(i, nwords, source_file, chunk_size, overlap, nchunks, uuid0) ==
    IF i >= nwords THEN <<>>
    ELSE LET end == IF i + chunk_size <= nwords THEN i + chunk_size ELSE nwords IN
         <<[id |-> uuid0 + nchunks + 1,
            text |-> [from |-> i, to |-> end],
            source_file |-> source_file,
            chunk_index |-> nchunks,
            word_count |-> end - i,
            start_word |-> i,
            end_word |-> end]>>
         \o ChunkLoop_no_break(i + (chunk_size - overlap), nwords, source_file,
                               chunk_size, overlap, nchunks + 1, uuid0)

\* the loop of _chunk_text emitting full chunks only: a shorter tail is dropped
RECURSIVE ChunkLoop_full_only(_, _, _, _, _, _, _)
ChunkLoop_full_only(i, nwords, source_file, chunk_size, overlap, nchunks, uuid0) ==
    IF i + chunk_size > nwords THEN <<>>
    ELSE <<[id |-> uuid0 + nchunks + 1,
            text |-> [from |-> i, to |-> i + chunk_size],
            source_file |-> source_file,
            chunk_index |-> nchunks,
            word_count |-> chunk_size,
            start_word |-> i,
            end_word |-> i + chunk_size]>>
         \o ChunkLoop_full_only(i + (chunk_size - overlap), nwords, source_file,
                                chunk_size, overlap, nchunks + 1, uuid0)

\* The loop of _chunk_text from offset i on, with nchunks chunks made so far;
\* ids are the uuids drawn, in order, after uuid0.
RECURSIVE ChunkLoop(_, _, _, _, _, _, _)
ChunkLoop(i, nwords, source_file, chunk_size, overlap, nchunks, uuid0) ==
    IF i >= nwords THEN <<>>
    ELSE LET end == Min(i + chunk_size, nwords)
             chunk == [id |-> uuid0 + nchunks + 1,
                       text |-> Words(i, end),
                       source_file |-> source_file,
                       chunk_index |-> nchunks,
                       word_count |-> end - i,
                       start_word |-> i,
                       end_word |-> end]
         IN  IF i + chunk_size >= nwords THEN <<chunk>>
             ELSE <<chunk>> \o ChunkLoop(i + (chunk_size - overlap), nwords, source_file,
                                         chunk_size, overlap, nchunks + 1, uuid0)

\* _chunk_text stepping by chunk_size: the overlap forgotten
chunk_text_no_overlap(nwords, source_file, uuid0) ==
    IF nwords = 0 THEN <<>>
    ELSE ChunkLoop(0, nwords, source_file, ChunkSize, 0, 0, uuid0)

\* _chunk_text(text, source_file) for a text of nwords words
chunk_text(nwords, source_file, uuid0) ==
    IF nwords = 0 THEN <<>>
    ELSE ChunkLoop(0, nwords, source_file, ChunkSize, Overlap, 0, uuid0)

\* DocumentParser.parse for the 'text' parser: decoding never fails (latin-1
\* decodes every byte string), the text is the bytes' text.  For the other
\* parsers the library decides: parse_ok, and a text of parsed_words words.
ParseSucceeds(parser_type, parse_ok) == parser_type = "text" \/ parse_ok
ParsedWords(parser_type, file_content, parsed_words) ==
    IF parser_type = "text" THEN file_content.words ELSE parsed_words

\* _process_document under handle_message's dispatch: [response, documents, uuid,
\* parsed], parsed being the parser types document_parser.parse was called with
IngestionHandle(message, documents, uuid0, parse_ok, parsed_words) ==
    LET unchanged(resp) == [response |-> resp, documents |-> documents, uuid |-> uuid0,
                            parsed |-> <<>>] IN
    IF message.type # "DOCUMENT_UPLOAD"
    THEN unchanged(create_error_message(message, IngestionName,
                        "Unsupported message type: " \o message.type))
    ELSE IF ~IsDict(message.payload)
    THEN unchanged(create_error_message(message, IngestionName,
            "Document processing failed: 'NoneType' object has no attribute 'get'"))
    ELSE
    LET file_name == Get(message.payload, "file_name", None)
        file_content == Get(message.payload, "file_content", [len |-> 0, words |-> 0])
        file_type == Get(message.payload, "file_type", None)
        has_name == "file_name" \in DOMAIN message.payload /\ file_name # ""
        has_content == "file_content" \in DOMAIN message.payload /\ file_content.len > 0
    IN
    IF ~(has_name /\ has_content)
    THEN unchanged(create_error_message(message, IngestionName,
                        "Missing required fields: file_name or file_content"))
    ELSE
    LET parser_type == ParserType(file_name) IN
    IF parser_type = None
    THEN unchanged(create_error_message(message, IngestionName,
            "Document processing failed: Failed to parse document " \o file_name
                \o ": Unsupported file type: " \o file_name))
    ELSE IF ~ParseSucceeds(parser_type, parse_ok)
    THEN [unchanged(create_error_message(message, IngestionName,
            "Document processing failed: Failed to parse document " \o file_name
                \o ": parsing failed")) EXCEPT !.parsed = <<parser_type>>]
    ELSE
    LET nwords == ParsedWords(parser_type, file_content, parsed_words)
        chunks == chunk_text(nwords, file_name, uuid0)
        metadata == [file_name |-> file_name, file_type |-> file_type,
                     parser_type |-> parser_type, word_count |-> nwords]
        doc_id == uuid0 + Len(chunks) + 1
        doc == [id |-> doc_id, name |-> file_name, type |-> file_type,
                content |-> Words(0, nwords), chunks |-> chunks, metadata |-> metadata]
    IN  [response |-> create_response_message(message, IngestionName, "DOCUMENT_PARSED",
                        [status |-> "success", document_id |-> doc_id,
                         file_name |-> file_name, chunks |-> chunks,
                         metadata |-> metadata, total_chunks |-> Len(chunks)]),
         documents |-> (doc_id :> doc) @@ documents,
         uuid |-> doc_id,
         parsed |-> <<parser_type>>]

get_document(documents, doc_id) ==
    IF doc_id \in DOMAIN documents THEN documents[doc_id] ELSE None


(***************************************************************************)
(* utils/vector_store.py                                                   *)
(***************************************************************************)
ZeroVector == [dir |-> 0, norm |-> "zero"]

\* embedding / np.linalg.norm(embedding) when the norm is positive
Normalize(embedding) ==
    IF embedding.norm # "zero" THEN [dir |-> embedding.dir, norm |-> "unit"] ELSE embedding

\* Inner product of two normalized vectors, in hundredths: directions one
\* apart are at 60 degrees, further apart orthogonal.
InnerProduct(a, b) ==
    IF a.norm = "zero" \/ b.norm = "zero" THEN 0
    ELSE IF a.dir = b.dir THEN 100
    ELSE IF a.dir - b.dir \in {-1, 1} THEN 50
    ELSE 0

VectorStore ==
    [dimension |-> Dimension, index |-> <<>>, metadata_store |-> <<>>,
     id_to_index |-> <<>>, index_to_id |-> <<>>, next_index |-> 0]

\* index.ntotal
ntotal(vs) == Len(vs.index)

\* an add_vector that forgets "self.next_index += 1"
add_vector_no_increment(vs, vector_id, embedding, metadata) ==
    LET current_index == vs.next_index IN
    [dimension |-> vs.dimension,
     index |-> Append(vs.index, Normalize(embedding)),
     metadata_store |-> (vector_id :> metadata) @@ vs.metadata_store,
     id_to_index |-> (vector_id :> current_index) @@ vs.id_to_index,
     index_to_id |-> (current_index :> vector_id) @@ vs.index_to_id,
     next_index |-> vs.next_index]

add_vector(vs, vector_id, embedding, metadata) ==
    LET current_index == vs.next_index IN
    [dimension |-> vs.dimension,
     index |-> Append(vs.index, Normalize(embedding)),
     metadata_store |-> (vector_id :> metadata) @@ vs.metadata_store,
     id_to_index |-> (vector_id :> current_index) @@ vs.id_to_index,
     index_to_id |-> (current_index :> vector_id) @@ vs.index_to_id,
     next_index |-> vs.next_index + 1]

\* add_vector up to and including self.index.add(...)
add_to_index(vs, embedding) ==
    [vs EXCEPT !.index = Append(@, Normalize(embedding))]

\* the rest of add_vector, recording the mapping one position too far
record_mapping_skip(vs, vector_id, metadata) ==
    LET current_index == vs.next_index + 1 IN
    [vs EXCEPT
        !.metadata_store = (vector_id :> metadata) @@ @,
        !.id_to_index = (vector_id :> current_index) @@ @,
        !.index_to_id = (current_index :> vector_id) @@ @,
        !.next_index = @ + 1]

\* the rest of add_vector: "Store metadata and mappings", "self.next_index += 1"
record_mapping(vs, vector_id, metadata) ==
    LET current_index == vs.next_index IN
    [vs EXCEPT
        !.metadata_store = (vector_id :> metadata) @@ @,
        !.id_to_index = (vector_id :> current_index) @@ @,
        !.index_to_id = (current_index :> vector_id) @@ @,
        !.next_index = @ + 1]

\* the threads that call add_vector on one store, and a thread not in a call
Threads == {1, 2}
Idle == [at |-> "idle"]

\* faiss documents no order among equal scores.  Its result heap keeps, of
\* equal scores, the earlier positions (a later one replaces the top only when
\* strictly better); the order in which it hands the kept ones back is either by
\* position ("first") or, comparing (score, position) pairs, the later position
\* first ("last").
TieOrders == {"first", "last"}

\* the k positions the result heap keeps, best first, the earlier position
\* first among equals
RECURSIVE FaissKept(_, _, _, _)
FaissKept(index, query, k, taken) ==
    IF k = 0 THEN <<>>
    ELSE LET left == (1..Len(index)) \ taken
             best == CHOOSE p \in left : \A o \in left :
                        \/ InnerProduct(query, index[p]) > InnerProduct(query, index[o])
                        \/ /\ InnerProduct(query, index[p]) = InnerProduct(query, index[o])
                           /\ p <= o
         IN  <<[similarity |-> InnerProduct(query, index[best]), index |-> best - 1]>>
                \o FaissKept(index, query, k - 1, taken \cup {best})

\* the kept positions, best first, the later position first among equals
RECURSIVE FaissReorder(_, _, _)
FaissReorder(index, query, kept) ==
    IF kept = {} THEN <<>>
    ELSE LET best == CHOOSE p \in kept : \A o \in kept :
                        \/ InnerProduct(query, index[p]) > InnerProduct(query, index[o])
                        \/ /\ InnerProduct(query, index[p]) = InnerProduct(query, index[o])
                           /\ p >= o
         IN  <<[similarity |-> InnerProduct(query, index[best]), index |-> best - 1]>>
                \o FaissReorder(index, query, kept \ {best})

\* faiss IndexFlatIP.search: the k positions of largest inner product, best first
FaissSearch(index, query, k, taken) ==
    LET kept == FaissKept(index, query, k, taken) IN
    IF faiss_ties = "first" THEN kept
    ELSE FaissReorder(index, query, { kept[i].index + 1 : i \in 1..Len(kept) })

\* the loop "Convert results" of search
RECURSIVE ConvertResults(_, _)
ConvertResults(vs, hits) ==
    IF hits = <<>> THEN <<>>
    ELSE LET h == Head(hits) IN
         (IF h.index \in DOMAIN vs.index_to_id
          THEN <<[id |-> vs.index_to_id[h.index], score |-> h.similarity]>>
          ELSE <<>>) \o ConvertResults(vs, Tail(hits))

\* search asking faiss for every vector: top_k forgotten
search_unbounded(vs, query_embedding, top_k) ==
    IF ntotal(vs) = 0 THEN <<>>
    ELSE ConvertResults(vs, FaissSearch(vs.index, Normalize(query_embedding),
                                        ntotal(vs), {}))

search(vs, query_embedding, top_k) ==
    IF ntotal(vs) = 0 THEN <<>>
    ELSE ConvertResults(vs, FaissSearch(vs.index, Normalize(query_embedding),
                                        Min(top_k, ntotal(vs)), {}))

\* a removal that takes the entry out of the metadata and the id mapping
remove_vector_hard(vs, vector_id) ==
    IF vector_id \in DOMAIN vs.metadata_store
    THEN [vs EXCEPT
            !.metadata_store = [v \in DOMAIN vs.metadata_store \ {vector_id} |->
                                    vs.metadata_store[v]],
            !.id_to_index = [v \in DOMAIN vs.id_to_index \ {vector_id} |->
                                    vs.id_to_index[v]]]
    ELSE vs

\* what remove_vector returns
remove_vector_returns(vs, vector_id) == vector_id \in DOMAIN vs.metadata_store

remove_vector(vs, vector_id) ==
    IF vector_id \in DOMAIN vs.metadata_store
    THEN [vs EXCEPT !.metadata_store[vector_id] = [deleted |-> TRUE] @@ @]
    ELSE vs

\* a clear that resets the faiss index only
clear_index_only(vs) == [vs EXCEPT !.index = <<>>, !.next_index = 0]

clear(vs) == [VectorStore EXCEPT !.dimension = vs.dimension]

\* statistics that count every metadata entry as active
get_statistics_count_all(vs) ==
    [total_vectors |-> Len(vs.index),
     active_vectors |-> Cardinality(DOMAIN vs.metadata_store),
     deleted_vectors |-> Len(vs.index) - Cardinality(DOMAIN vs.metadata_store),
     dimension |-> vs.dimension,
     index_type |-> "IndexFlatIP"]

get_statistics(vs) ==
    LET active_vectors ==
            Cardinality({ v \in DOMAIN vs.metadata_store :
                            ~Get(vs.metadata_store[v], "deleted", FALSE) })
    IN  [total_vectors |-> ntotal(vs),
         active_vectors |-> active_vectors,
         deleted_vectors |-> ntotal(vs) - active_vectors,
         dimension |-> vs.dimension,
         index_type |-> "IndexFlatIP"]

\* A Python tuple and a Python list: json writes both as an array and reads an
\* array back as a list.
Tuple(items) == [kind |-> "tuple", items |-> items]
List(items) == [kind |-> "list", items |-> items]

\* the metadata keys of the model whose value is a sequence: the CSV parser's
\* "shape": df.shape
SequenceKeys == {"shape"}

\* json.load(json.dump(metadata)) for one metadata dict
JsonMetadata(metadata) ==
    [key \in DOMAIN metadata |->
        IF key \in SequenceKeys THEN List(metadata[key].items) ELSE metadata[key]]

\* int(k) for the decimal string of a position
ParseInt(k) == CHOOSE n \in 0..99 : ToString(n) = k

\* the sidecar json.dump writes: the keys of a dict become strings (the ids of
\* metadata_store and id_to_index are strings already, the positions of
\* index_to_id are ints)
save_to_disk(vs) ==
    [index |-> vs.index,
     save_data |->
        [metadata_store |-> [v \in DOMAIN vs.metadata_store |->
                                JsonMetadata(vs.metadata_store[v])],
         id_to_index |-> vs.id_to_index,
         index_to_id |-> [k \in { ToString(p) : p \in DOMAIN vs.index_to_id } |->
                                vs.index_to_id[ParseInt(k)]],
         next_index |-> vs.next_index,
         dimension |-> vs.dimension]]

load_from_disk(vs, disk) ==
    [dimension |-> disk.save_data.dimension,
     index |-> disk.index,
     metadata_store |-> disk.save_data.metadata_store,
     id_to_index |-> disk.save_data.id_to_index,
     index_to_id |-> [p \in { ParseInt(k) : k \in DOMAIN disk.save_data.index_to_id } |->
                        disk.save_data.index_to_id[ToString(p)]],
     next_index |-> disk.save_data.next_index]

\* no call has been made on the vector store directly
NoCall == [op |-> "none", vector_id |-> 0, returned |-> FALSE]

(***************************************************************************)
(* agents/retrieval_agent.py                                               *)
(***************************************************************************)
\* an indexing loop that stops at the first chunk that fails
RECURSIVE IndexLoop_abort(_, _, _, _, _, _, _, _, _)
IndexLoop_abort(chunks, i, outcomes, document_id, file_name, metadata, vs, dchunks, indexed) ==
    IF i > Len(chunks) \/ outcomes[i].norm = "fail"
    THEN [store |-> vs, chunks |-> dchunks, indexed |-> indexed]
    ELSE LET chunk == chunks[i]
             owner == [document_id |-> document_id, document_name |-> file_name]
         IN  IndexLoop_abort(chunks, i + 1, outcomes, document_id, file_name, metadata,
                [dimension |-> vs.dimension,
                 index |-> Append(vs.index, outcomes[i]),
                 metadata_store |-> (chunk.id :> (metadata @@ owner @@ chunk))
                                        @@ vs.metadata_store,
                 id_to_index |-> (chunk.id :> vs.next_index) @@ vs.id_to_index,
                 index_to_id |-> (vs.next_index :> chunk.id) @@ vs.index_to_id,
                 next_index |-> vs.next_index + 1],
                (chunk.id :> ([embedding_dims |-> 1000] @@ owner @@ chunk)) @@ dchunks,
                Append(indexed, chunk.id))

\* The loop of _index_document over chunks[i..]: outcomes[i] is the chunk's
\* embedding, of norm "fail" when embedding or insertion of chunk i raises.
\* [store, chunks, indexed]
RECURSIVE IndexLoop(_, _, _, _, _, _, _, _, _)
IndexLoop(chunks, i, outcomes, document_id, file_name, metadata, vs, dchunks, indexed) ==
    IF i > Len(chunks) THEN [store |-> vs, chunks |-> dchunks, indexed |-> indexed]
    ELSE IF outcomes[i].norm = "fail"
    THEN IndexLoop(chunks, i + 1, outcomes, document_id, file_name, metadata,
                   vs, dchunks, indexed)
    ELSE LET chunk == chunks[i]
             owner == [document_id |-> document_id, document_name |-> file_name]
         IN  IndexLoop(chunks, i + 1, outcomes, document_id, file_name, metadata,
                add_vector(vs, chunk.id, outcomes[i], metadata @@ owner @@ chunk),
                (chunk.id :> ([embedding_dims |-> 1000] @@ owner @@ chunk)) @@ dchunks,
                Append(indexed, chunk.id))

\* [response, store, chunks]
index_document(message, vs, dchunks, outcomes) ==
    IF ~IsDict(message.payload)
    THEN [response |-> create_error_message(message, RetrievalName,
            "Document indexing failed: 'NoneType' object has no attribute 'get'"),
          store |-> vs, chunks |-> dchunks]
    ELSE
    LET document_id == Get(message.payload, "document_id", None)
        file_name == Get(message.payload, "file_name", None)
        chunks == Get(message.payload, "chunks", <<>>)
        metadata == Get(message.payload, "metadata", <<>>)
    IN
    IF chunks = <<>>
    THEN [response |-> create_error_message(message, RetrievalName,
                            "No chunks provided for indexing"),
          store |-> vs, chunks |-> dchunks]
    ELSE
    LET done == IndexLoop(chunks, 1, outcomes, document_id, file_name, metadata,
                          vs, dchunks, <<>>)
    IN  [response |-> create_response_message(message, RetrievalName, "INGESTION_COMPLETE",
                        [status |-> "success", document_id |-> document_id,
                         file_name |-> file_name,
                         indexed_chunks |-> Len(done.indexed),
                         total_chunks |-> Len(chunks)]),
         store |-> done.store, chunks |-> done.chunks]

SourceRef(chunk_data) ==
    chunk_data.document_name \o " (chunk " \o ToString(chunk_data.chunk_index) \o ")"

\* a membership test that never finds the reference
InSeq_never(x, s) == FALSE

InSeq(x, s) == \E i \in 1..Len(s) : s[i] = x

\* the loop "Format retrieved chunks": [retrieved_chunks, sources]
RECURSIVE FormatLoop(_, _, _, _)
FormatLoop(search_results, dchunks, retrieved_chunks, sources) ==
    IF search_results = <<>>
    THEN [retrieved_chunks |-> retrieved_chunks, sources |-> sources]
    ELSE LET hit == Head(search_results) IN
         IF hit.id \in DOMAIN dchunks
         THEN LET chunk_data == dchunks[hit.id]
                  source_ref == SourceRef(chunk_data)
              IN  FormatLoop(Tail(search_results), dchunks,
                     Append(retrieved_chunks,
                            [id |-> hit.id, text |-> chunk_data.text,
                             source_file |-> chunk_data.document_name,
                             similarity_score |-> hit.score,
                             chunk_index |-> chunk_data.chunk_index]),
                     IF InSeq(source_ref, sources) THEN sources
                     ELSE Append(sources, source_ref))
         ELSE FormatLoop(Tail(search_results), dchunks, retrieved_chunks, sources)

\* "if query is None" in place of "if not query"
Falsy_none_only(query) == query = None

\* The query is falsy: None or the empty string.
Falsy(query) == query = None \/ query = ""

\* the response of _retrieve_context; search_ok is whether faiss answers
retrieve_context(message, vs, dchunks, query_embedding, search_ok) ==
    IF ~IsDict(message.payload)
    THEN create_error_message(message, RetrievalName,
            "Context retrieval failed: 'NoneType' object has no attribute 'get'")
    ELSE
    LET query == Get(message.payload, "query", None)
        top_k == Get(message.payload, "top_k", 5)
    IN
    IF Falsy(query)
    THEN create_error_message(message, RetrievalName, "No query provided for retrieval")
    ELSE IF ntotal(vs) > 0 /\ ~search_ok
    THEN create_error_message(message, RetrievalName,
            "Context retrieval failed: Vector search failed: faiss error")
    ELSE
    LET found == FormatLoop(search(vs, query_embedding, top_k), dchunks, <<>>, <<>>)
    IN  create_response_message(message, RetrievalName, "RETRIEVAL_RESULT",
            [status |-> "success", query |-> query,
             retrieved_chunks |-> found.retrieved_chunks,
             sources |-> found.sources,
             total_results |-> Len(found.retrieved_chunks)])

get_indexed_count(dchunks) == Cardinality(DOMAIN dchunks)


(***************************************************************************)
(* utils/local_llm.py and agents/llm_response_agent.py                     *)
(***************************************************************************)
NoContextResponse ==
    "I don't have enough information in the uploaded documents to answer your question. "
    \o "Please make sure you've uploaded relevant documents and try asking a more specific question "
    \o "about the content in those documents."

\* A query that is truthy and not a str: query.lower() raises AttributeError.
NonStrQuery == "{'not': 'a str'}"
IsStr(query) == query # NonStrQuery /\ query # None

\* generate_response without its "if not context_chunks" branch
generate_response_no_empty_check(query, context_chunks, conversation_history) ==
    IF ~IsStr(query)
    THEN "I apologize, but I encountered an error while processing your question: "
            \o "'dict' object has no attribute 'lower'"
    ELSE "Based on the uploaded documents: " \o query

\* _extract_relevant_info raises: it is reached (there are context chunks) and
\* query.lower() does not exist
GeneratorRaised(query, context_chunks) == context_chunks # <<>> /\ ~IsStr(query)

\* generate_response: every exception becomes the apology text
\* a generate_response that answers differently in a conversation under way
generate_response_with_history(query, context_chunks, conversation_history) ==
    IF context_chunks = <<>> THEN NoContextResponse
    ELSE IF GeneratorRaised(query, context_chunks)
    THEN "I apologize, but I encountered an error while processing your question: "
            \o "'dict' object has no attribute 'lower'"
    ELSE IF conversation_history # <<>>
    THEN "As discussed earlier: " \o query
    ELSE "Based on the uploaded documents: " \o query

generate_response(query, context_chunks, conversation_history) ==
    IF context_chunks = <<>> THEN NoContextResponse
    ELSE IF GeneratorRaised(query, context_chunks)
    THEN "I apologize, but I encountered an error while processing your question: "
            \o "'dict' object has no attribute 'lower'"
    ELSE "Based on the uploaded documents: " \o query

\* PUNCT: the characters of the class [.!?]
IsStop(c) == c \in {".", "!", "?"}

SpanStop(s) ==
    CHOOSE n \in 0..Len(s) :
        /\ \A i \in 1..n : IsStop(Char(s, i))
        /\ n = Len(s) \/ ~IsStop(Char(s, n + 1))

SpanNotStop(s) ==
    CHOOSE n \in 0..Len(s) :
        /\ \A i \in 1..n : ~IsStop(Char(s, i))
        /\ n = Len(s) \/ IsStop(Char(s, n + 1))

\* re.split(r'[.!?]+', s): the pieces between the runs of stops, the empty
\* pieces at the ends included
RECURSIVE SplitSentences(_)
SplitSentences(s) ==
    LET n == SpanNotStop(s) IN
    IF n = Len(s) THEN <<s>>
    ELSE LET rest == DropFirst(s, n + 1) IN
         <<SubSeq(s, 1, n)>> \o SplitSentences(DropFirst(rest, SpanStop(rest) + 1))

\* any(word in s for word in words)
AnyIn(words, s) == \E word \in words : Contains(word, s)

\* the loop "for sentence in sentences" of _extract_relevant_info
RECURSIVE SentenceLoop(_, _)
SentenceLoop(query_words, sentences) ==
    IF sentences = <<>> THEN <<>>
    ELSE LET sentence == Strip(Head(sentences)) IN
         (IF AnyIn(query_words, Lower(sentence)) /\ Len(sentence) > 20
          THEN <<sentence>> ELSE <<>>)
            \o SentenceLoop(query_words, Tail(sentences))

\* the loop "for chunk in context_chunks" without its "if overlap > 0"
RECURSIVE ExtractLoop_no_overlap_check(_, _)
ExtractLoop_no_overlap_check(query_words, context_chunks) ==
    IF context_chunks = <<>> THEN <<>>
    ELSE LET passage == Get(Head(context_chunks), "text", "") IN
         SentenceLoop(query_words, SplitSentences(passage))
            \o ExtractLoop_no_overlap_check(query_words, Tail(context_chunks))

\* the loop "for chunk in context_chunks" of _extract_relevant_info
RECURSIVE ExtractLoop(_, _)
ExtractLoop(query_words, context_chunks) ==
    IF context_chunks = <<>> THEN <<>>
    ELSE LET passage == Get(Head(context_chunks), "text", "")
             chunk_words == SetOf(Split(Lower(passage)))
             overlap == Cardinality(query_words \cap chunk_words)
         IN  (IF overlap > 0
              THEN SentenceLoop(query_words, SplitSentences(passage))
              ELSE <<>>)
                \o ExtractLoop(query_words, Tail(context_chunks))

extract_relevant_info(query, context_chunks) ==
    LET query_words == SetOf(Split(Lower(query)))
        relevant_info == ExtractLoop(query_words, context_chunks)
    IN  SubSeq(relevant_info, 1, Min(5, Len(relevant_info)))

\* a test for a keyword as one of the words of the query
ContainsWord(sub, s) == sub \in SetOf(Split(s))

\* sub in s, for the keywords of the dispatch
KeywordIn(sub, s) == Contains(sub, s)

\* the _generate_*_response method _generate_contextual_response hands over to
response_type(query) ==
    LET query_lower == Lower(query) IN
    IF \E word \in {"what", "what is", "define", "explain"} : KeywordIn(word, query_lower)
    THEN "explanation"
    ELSE IF \E word \in {"how", "how to", "process", "procedure"} : KeywordIn(word, query_lower)
    THEN "process"
    ELSE IF \E word \in {"list", "show", "enumerate", "what are"} : KeywordIn(word, query_lower)
    THEN "list"
    ELSE IF \E word \in {"when", "date", "time"} : KeywordIn(word, query_lower)
    THEN "temporal"
    ELSE IF \E word \in {"where", "location"} : KeywordIn(word, query_lower)
    THEN "location"
    ELSE IF \E word \in {"why", "reason", "because"} : KeywordIn(word, query_lower)
    THEN "causal"
    ELSE "general"

\* the character U+2022 that starts an item of a bullet list, written * here
Bullet == "*"

\* the length of the longest prefix of s without a comma
SpanNotComma(s) ==
    CHOOSE n \in 0..Len(s) :
        /\ \A i \in 1..n : Char(s, i) # ","
        /\ n = Len(s) \/ Char(s, n + 1) = ","

\* s.split(",")
RECURSIVE SplitComma(_)
SplitComma(s) ==
    LET n == SpanNotComma(s) IN
    IF n = Len(s) THEN <<s>>
    ELSE <<SubSeq(s, 1, n)>> \o SplitComma(DropFirst(s, n + 2))

\* [item.strip() for item in items if item.strip()]
RECURSIVE StripItems(_)
StripItems(items) ==
    IF items = <<>> THEN <<>>
    ELSE (IF Strip(Head(items)) # "" THEN <<Strip(Head(items))>> ELSE <<>>)
            \o StripItems(Tail(items))

\* the loop "for info in relevant_info" of _generate_list_response
RECURSIVE ListItems(_)
ListItems(relevant_info) ==
    IF relevant_info = <<>> THEN <<>>
    ELSE (IF Contains(",", Head(relevant_info))
          THEN StripItems(SplitComma(Head(relevant_info)))
          ELSE <<Head(relevant_info)>>)
            \o ListItems(Tail(relevant_info))

TimeWords == {"date", "time", "when", "during", "after", "before", "year", "month", "day"}

\* the loop "for info in relevant_info" of _generate_temporal_response
RECURSIVE TemporalInfo(_)
TemporalInfo(relevant_info) ==
    IF relevant_info = <<>> THEN <<>>
    ELSE (IF AnyIn(TimeWords, Lower(Head(relevant_info)))
          THEN <<Head(relevant_info)>> ELSE <<>>)
            \o TemporalInfo(Tail(relevant_info))

\* the lines f"{prefix}{info}\n" of the items from place i on; numbered is
\* whether the place follows the prefix, as in f"{i}. " and f"Step {i}: "
RECURSIVE Lines(_, _, _, _, _)
Lines(items, i, before, numbered, after) ==
    IF i > Len(items) THEN ""
    ELSE before \o (IF numbered THEN ToString(i) ELSE "") \o after \o items[i] \o "\n"
            \o Lines(items, i + 1, before, numbered, after)

\* ', '.join(set(...)): Python fixes no order for a set; the chunks of the model
\* name one source file
RECURSIVE JoinSources(_)
JoinSources(sources) ==
    IF sources = {} THEN ""
    ELSE LET first == CHOOSE source \in sources : TRUE IN
         IF sources = {first} THEN first
         ELSE first \o ", " \o JoinSources(sources \ {first})

generate_explanation_response(relevant_info, context_chunks) ==
    IF relevant_info = <<>>
    THEN "Based on the documents, I couldn't find a clear explanation for your question."
    ELSE "Based on the uploaded documents:\n\n"
            \o Lines(relevant_info, 1, "", TRUE, ". ")
            \o "\nThis information comes from: "
            \o JoinSources({ Get(context_chunks[i], "source_file", "Unknown") :
                                i \in 1..Len(context_chunks) })

generate_process_response(relevant_info, context_chunks) ==
    IF relevant_info = <<>>
    THEN "I couldn't find specific process information in the documents for your question."
    ELSE "According to the documents, here's the relevant process information:\n\n"
            \o Lines(relevant_info, 1, "Step ", TRUE, ": ")

generate_list_response(relevant_info, context_chunks) ==
    IF relevant_info = <<>>
    THEN "I couldn't find list information relevant to your question in the documents."
    ELSE LET items == ListItems(relevant_info) IN
         "From the documents, here are the relevant items:\n\n"
            \o Lines(SubSeq(items, 1, Min(10, Len(items))), 1, Bullet, FALSE, " ")

\* the temporal response without its filter on the time words
generate_temporal_response_unfiltered(relevant_info, context_chunks) ==
    IF relevant_info = <<>>
    THEN "I couldn't find specific date or time information for your question."
    ELSE "Regarding timing information from the documents:\n\n"
            \o Lines(relevant_info, 1, Bullet, FALSE, " ")

generate_temporal_response(relevant_info, context_chunks) ==
    IF relevant_info = <<>>
    THEN "I couldn't find specific date or time information for your question."
    ELSE LET temporal_info == TemporalInfo(relevant_info) IN
         "Regarding timing information from the documents:\n\n"
            \o Lines(IF temporal_info # <<>> THEN temporal_info ELSE relevant_info,
                     1, Bullet, FALSE, " ")

generate_location_response(relevant_info, context_chunks) ==
    IF relevant_info = <<>>
    THEN "I couldn't find specific location information for your question."
    ELSE "Regarding location information from the documents:\n\n"
            \o Lines(relevant_info, 1, Bullet, FALSE, " ")

generate_causal_response(relevant_info, context_chunks) ==
    IF relevant_info = <<>>
    THEN "I couldn't find specific reasoning or causal information for your question."
    ELSE "Based on the information in the documents:\n\n"
            \o Lines(relevant_info, 1, Bullet, FALSE, " ")
            \o "\nThis appears to be the reasoning or explanation provided in the source material."

generate_general_response(relevant_info, context_chunks) ==
    IF relevant_info = <<>>
    THEN "I found some information in the documents, but it may not directly answer your question."
    ELSE "From the uploaded documents, here's the relevant information I found:\n\n"
            \o Lines(relevant_info, 1, Bullet, FALSE, " ")
            \o "\nIf this doesn't fully answer your question, please try rephrasing it or asking about specific aspects mentioned in the documents."

generate_contextual_response(query, relevant_info, context_chunks) ==
    LET shape == response_type(query) IN
    CASE shape = "explanation" -> generate_explanation_response(relevant_info, context_chunks)
      [] shape = "process" -> generate_process_response(relevant_info, context_chunks)
      [] shape = "list" -> generate_list_response(relevant_info, context_chunks)
      [] shape = "temporal" -> generate_temporal_response(relevant_info, context_chunks)
      [] shape = "location" -> generate_location_response(relevant_info, context_chunks)
      [] shape = "causal" -> generate_causal_response(relevant_info, context_chunks)
      [] OTHER -> generate_general_response(relevant_info, context_chunks)

\* generate_response on a str query and chunks whose text and source_file are
\* str, with the text it builds
generate_response_text(query, context_chunks, conversation_history) ==
    IF context_chunks = <<>> THEN NoContextResponse
    ELSE generate_contextual_response(query,
            extract_relevant_info(query, context_chunks), context_chunks)

\* the response of _generate_response under handle_message's dispatch
LLMHandle(message) ==
    IF message.type # "RETRIEVAL_RESULT"
    THEN create_error_message(message, LLMName,
            "Unsupported message type: " \o message.type)
    ELSE IF ~IsDict(message.payload)
    THEN create_error_message(message, LLMName,
            "Response generation failed: 'NoneType' object has no attribute 'get'")
    ELSE
    LET query == Get(message.payload, "query", None)
        retrieved_chunks == Get(message.payload, "retrieved_chunks", <<>>)
        sources == Get(message.payload, "sources", <<>>)
        conversation_history == Get(message.payload, "conversation_history", <<>>)
    IN
    IF Falsy(query)
    THEN create_error_message(message, LLMName, "No query provided for response generation")
    ELSE create_response_message(message, LLMName, "LLM_RESPONSE",
            [status |-> "success", query |-> query,
             response |-> generate_response(query, retrieved_chunks, conversation_history),
             sources |-> sources,
             context_chunks_used |-> Len(retrieved_chunks)])

\* RetrievalAgent.handle_message: [response, store, chunks]
\* a Retrieval Agent that drops its index and chunk map when it retrieves
RetrievalHandle_forgetful(message, vs, dchunks, outcomes, query_embedding, search_ok) ==
    IF message.type = "DOCUMENT_PARSED"
    THEN index_document(message, vs, dchunks, outcomes)
    ELSE [response |->
            IF message.type = "RETRIEVAL_REQUEST"
            THEN retrieve_context(message, vs, dchunks, query_embedding, search_ok)
            ELSE create_error_message(message, RetrievalName,
                    "Unsupported message type: " \o message.type),
          store |-> clear(vs), chunks |-> <<>>]

RetrievalHandle(message, vs, dchunks, outcomes, query_embedding, search_ok) ==
    IF message.type = "DOCUMENT_PARSED"
    THEN index_document(message, vs, dchunks, outcomes)
    ELSE [response |->
            IF message.type = "RETRIEVAL_REQUEST"
            THEN retrieve_context(message, vs, dchunks, query_embedding, search_ok)
            ELSE create_error_message(message, RetrievalName,
                    "Unsupported message type: " \o message.type),
          store |-> vs, chunks |-> dchunks]

(***************************************************************************)
(* utils/local_embeddings.py: the TF-IDF embedding generator.  A vector is  *)
(* [length, kind]: its number of components and how it was made.           *)
(***************************************************************************)
\* re.sub(r'\s+', ' ', text)
RECURSIVE CollapseSpaces(_)
CollapseSpaces(s) ==
    IF s = "" THEN ""
    ELSE IF IsSpace(Char(s, 1)) THEN " " \o CollapseSpaces(DropFirst(s, SpanSpace(s) + 1))
    ELSE Char(s, 1) \o CollapseSpaces(DropFirst(s, 2))

\* re.sub(r'[^\w\s]', ' ', text)
RECURSIVE BlankPunctuation(_)
BlankPunctuation(s) ==
    IF s = "" THEN ""
    ELSE IF Len(s) = 1 THEN (IF IsWordChar(s) \/ IsSpace(s) THEN s ELSE " ")
    ELSE LET half == Len(s) \div 2 IN
         BlankPunctuation(SubSeq(s, 1, half)) \o BlankPunctuation(DropFirst(s, half + 1))

clean_text(embed_text) ==
    LET t == Strip(Lower(BlankPunctuation(CollapseSpaces(embed_text)))) IN
    IF Len(t) > MaxChars THEN SubSeq(t, 1, MaxChars) \o "..." ELSE t

LocalEmbeddingGenerator ==
    [corpus |-> <<>>, is_fitted |-> FALSE, dimension |-> EmbeddingDimension]

\* what sklearn does in a call: fit and transform succeed, fit raises (one
\* document with max_df 0.95, or no term left), or transform raises
FitOutcomes == {"ok", "fit_raises", "transform_raises"}

\* the "Ensure consistent dimension" step on a vector of n components
EnsureDimension(dimension, n) ==
    IF n < dimension THEN dimension ELSE Min(n, dimension)

\* generate_embedding that adds the text to the corpus once the fit succeeded
generate_embedding_append_after_fit(generator, embed_text, outcome, features) ==
    LET cleaned_text == clean_text(embed_text)
        appended == [generator EXCEPT !.corpus = Append(@, cleaned_text)]
    IN  IF Strip(cleaned_text) = ""
        THEN [generator |-> generator, raised |-> FALSE,
              returned |-> [length |-> generator.dimension, kind |-> "zeros"]]
        ELSE IF outcome = "fit_raises"
        THEN [generator |-> generator, raised |-> FALSE,
              returned |-> [length |-> generator.dimension, kind |-> "random"]]
        ELSE IF outcome = "transform_raises"
        THEN [generator |-> [appended EXCEPT !.is_fitted = TRUE], raised |-> FALSE,
              returned |-> [length |-> generator.dimension, kind |-> "random"]]
        ELSE [generator |-> [appended EXCEPT !.is_fitted = TRUE], raised |-> FALSE,
              returned |-> [length |-> EnsureDimension(generator.dimension, features),
                            kind |-> "tfidf"]]

\* generate_embedding without its "except Exception" clause
generate_embedding_no_fallback(generator, embed_text, outcome, features) ==
    LET cleaned_text == clean_text(embed_text)
        appended == [generator EXCEPT !.corpus = Append(@, cleaned_text)]
    IN  IF Strip(cleaned_text) = ""
        THEN [generator |-> generator, raised |-> FALSE,
              returned |-> [length |-> generator.dimension, kind |-> "zeros"]]
        ELSE IF outcome = "fit_raises"
        THEN [generator |-> appended, raised |-> TRUE, returned |-> None]
        ELSE IF outcome = "transform_raises"
        THEN [generator |-> [appended EXCEPT !.is_fitted = TRUE], raised |-> TRUE,
              returned |-> None]
        ELSE [generator |-> [appended EXCEPT !.is_fitted = TRUE], raised |-> FALSE,
              returned |-> [length |-> EnsureDimension(generator.dimension, features),
                            kind |-> "tfidf"]]

\* generate_embedding: the generator after the call and what the call returned;
\* features is the size of the vocabulary the fit gave
generate_embedding(generator, embed_text, outcome, features) ==
    LET cleaned_text == clean_text(embed_text)
        appended == [generator EXCEPT !.corpus = Append(@, cleaned_text)]
    IN  IF Strip(cleaned_text) = ""
        THEN [generator |-> generator, raised |-> FALSE,
              returned |-> [length |-> generator.dimension, kind |-> "zeros"]]
        ELSE IF outcome = "fit_raises"
        THEN [generator |-> appended, raised |-> FALSE,
              returned |-> [length |-> generator.dimension, kind |-> "random"]]
        ELSE IF outcome = "transform_raises"
        THEN [generator |-> [appended EXCEPT !.is_fitted = TRUE], raised |-> FALSE,
              returned |-> [length |-> generator.dimension, kind |-> "random"]]
        ELSE [generator |-> [appended EXCEPT !.is_fitted = TRUE], raised |-> FALSE,
              returned |-> [length |-> EnsureDimension(generator.dimension, features),
                            kind |-> "tfidf"]]

(***************************************************************************)
(* The requests of the model.                                              *)
(***************************************************************************)
NoBytes == [len |-> 0, words |-> 0]
Bytes(nwords) == [len |-> nwords + 1, words |-> nwords]

Upload(file_name, file_content) ==
    [file_name |-> file_name, file_content |-> file_content, file_type |-> "text/plain"]

UploadPayloads ==
    { NonePayload,
      [file_type |-> "text/plain"],
      Upload("", Bytes(1)),
      Upload("notes.txt", NoBytes),
      Upload("tool.exe", Bytes(1)),
      Upload("Scan.PDF", Bytes(1)),
      Upload("notes.txt", Bytes(0)),
      Upload("notes.txt", Bytes(1)),
      Upload("notes.txt", Bytes(2000)),
      Upload("README.MD", Bytes(4201)) }

\* the word counts a format parser outside the repository may return
ParsedWordCounts == {0, 1001}

QueryPayloads ==
    { NonePayload,
      [conversation_history |-> <<>>],
      [query |-> "", conversation_history |-> <<>>],
      [query |-> "what is x", conversation_history |-> <<>>],
      [query |-> "what is x", conversation_history |-> <<"earlier turn">>],
      [query |-> NonStrQuery, conversation_history |-> <<>>] }

\* The requests a caller may send under trace id t (app.py sends the first two
\* types, each under a fresh uuid).
Requests(t) ==
    { MCPMessage(UIName, CoordinatorName, "DOCUMENT_UPLOAD", t, p) : p \in UploadPayloads }
    \cup { MCPMessage(UIName, CoordinatorName, "QUERY_REQUEST", t, p) : p \in QueryPayloads }
    \cup { MCPMessage(UIName, CoordinatorName, "STATUS_UPDATE", t, [status |-> "ping"]) }

\* what embedding a text, or inserting the vector, may give
FailOutcome == [dir |-> 0, norm |-> "fail"]
Embeddings == { [dir |-> 1, norm |-> "unit"] }

ChunkCount(nwords) == Len(chunk_text(nwords, "", 0))

\* the most chunks the request can add to the index
RequestChunks(message) ==
    IF message.type = "DOCUMENT_UPLOAD" /\ "file_content" \in DOMAIN message.payload
    THEN ChunkCount(message.payload.file_content.words)
    ELSE 0


(***************************************************************************)
(* agents/coordinator_agent.py                                             *)
(***************************************************************************)
\* a stage check that never sees the failure
NeverFailed(response) == FALSE

\* "if ingestion_response.type == MCPMessageTypes.ERROR" and its three siblings
IngestionFailed(response) == response.type = "ERROR"
IndexingFailed(response) == response.type = "ERROR"
RetrievalFailed(response) == response.type = "ERROR"
LLMFailed(response) == response.type = "ERROR"

\* a failure result that leaves the error text out
StageFailed_no_error(message, stage, response) ==
    create_response_message(message, CoordinatorName, "ERROR", [status |-> "failed"])

\* the failure result of a workflow whose stage answered ERROR
StageFailed(message, stage, response) ==
    create_response_message(message, CoordinatorName, "ERROR",
        [status |-> "failed", error |-> stage \o " failed: " \o Get(response.payload, "error", None)])

UploadSuccess(message, ingestion, retrieval) ==
    create_response_message(message, CoordinatorName, "SUCCESS",
        [status |-> "success",
         document_id |-> Get(ingestion.payload, "document_id", None),
         file_name |-> Get(ingestion.payload, "file_name", None),
         indexed_chunks |-> Get(retrieval.payload, "indexed_chunks", None),
         workflow |-> "document_upload_complete"])

QuerySuccess(message, llm) ==
    create_response_message(message, CoordinatorName, "SUCCESS",
        [status |-> "success",
         query |-> Get(message.payload, "query", None),
         response |-> Get(llm.payload, "response", None),
         sources |-> Get(llm.payload, "sources", <<>>),
         context_chunks_used |-> Get(llm.payload, "context_chunks_used", 0),
         workflow |-> "query_processing_complete"])

\* the RETRIEVAL_REQUEST _handle_query_request builds
RetrievalMessage(message) ==
    MCPMessage(CoordinatorName, RetrievalName, "RETRIEVAL_REQUEST", message.trace_id,
        IF "query" \in DOMAIN message.payload
        THEN [query |-> message.payload.query, top_k |-> TopK]
        ELSE [top_k |-> TopK])

\* the message _handle_query_request builds for the LLM response agent
LLMMessage(message, retrieval) ==
    MCPMessage(CoordinatorName, LLMName, "RETRIEVAL_RESULT", message.trace_id,
        [conversation_history |-> Get(message.payload, "conversation_history", <<>>)]
            @@ retrieval.payload)

Handled(agent, message) == [agent |-> agent, message |-> message]

Init ==
    /\ router = MCPRouter
    /\ processed_documents = <<>>
    /\ document_chunks = <<>>
    /\ vector_store = VectorStore
    /\ pc = "idle"
    /\ request = NoMessage
    /\ ingestion_response = NoMessage
    /\ retrieval_response = NoMessage
    /\ llm_response = NoMessage
    /\ result = NoMessage
    /\ handled = <<>>
    /\ created = <<>>
    /\ chunk_failures = 0
    /\ parser_calls = <<>>
    /\ routed = <<>>
    /\ next_uuid = 0
    /\ nrequests = 0
    /\ text = 0
    /\ text_chunks = <<>>
    /\ store_call = NoCall
    /\ store_history = <<>>
    /\ faiss_ties \in TieOrders
    /\ call = [op |-> "none"]
    /\ embedder = LocalEmbeddingGenerator
    /\ inserting = [pc |-> [t \in Threads |-> Idle], placed |-> <<>>, overlapped |-> FALSE]

\* handle_message up to the first await of the workflow it dispatches to
HandleMessage(message) ==
    /\ pc = "idle"
    /\ nrequests < MaxRequests
    /\ ntotal(vector_store) + RequestChunks(message) <= MaxVectors
    /\ nrequests' = nrequests + 1
    /\ request' = message
    /\ router' = route_message(router, message)
    /\ routed' = Append(routed, message)
    /\ handled' = <<Handled(CoordinatorName, message)>>
    /\ ingestion_response' = NoMessage
    /\ retrieval_response' = NoMessage
    /\ llm_response' = NoMessage
    /\ IF message.type = "DOCUMENT_UPLOAD"
       THEN pc' = "ingest" /\ result' = NoMessage /\ created' = <<message>>
       ELSE IF message.type = "QUERY_REQUEST"
       THEN IF IsDict(message.payload)
            THEN pc' = "retrieve" /\ result' = NoMessage /\ created' = <<message>>
            ELSE LET r == create_error_message(message, CoordinatorName,
                            "Query processing workflow failed: "
                                \o "'NoneType' object has no attribute 'get'")
                 IN  pc' = "done" /\ result' = r /\ created' = <<message, r>>
       ELSE LET r == create_error_message(message, CoordinatorName,
                        "Unsupported message type: " \o message.type)
            IN  pc' = "done" /\ result' = r /\ created' = <<message, r>>
    /\ chunk_failures' = 0
    /\ parser_calls' = <<>>
    /\ UNCHANGED <<processed_documents, document_chunks, vector_store, next_uuid>>
    /\ UNCHANGED <<text, text_chunks>>
    /\ UNCHANGED store_call
    /\ UNCHANGED aloneVars

\* _handle_document_upload, step 1: the Ingestion Agent
IngestStage(parse_ok, parsed_words) ==
    /\ pc = "ingest"
    /\ ntotal(vector_store) + ChunkCount(parsed_words) <= MaxVectors
    /\ LET done == IngestionHandle(request, processed_documents, next_uuid,
                                   parse_ok, parsed_words)
       IN  /\ processed_documents' = done.documents
           /\ next_uuid' = done.uuid
           /\ ingestion_response' = done.response
           /\ parser_calls' = parser_calls \o done.parsed
           /\ handled' = Append(handled, Handled(IngestionName, request))
           /\ router' = route_message(router, done.response)
           /\ routed' = Append(routed, done.response)
           /\ IF IngestionFailed(done.response)
              THEN LET r == StageFailed(request, "Ingestion", done.response)
                   IN  pc' = "done" /\ result' = r
                       /\ created' = created \o <<done.response, r>>
              ELSE pc' = "index" /\ result' = result
                   /\ created' = Append(created, done.response)
    /\ UNCHANGED <<document_chunks, vector_store, request, retrieval_response,
                   llm_response, chunk_failures, nrequests>>
    /\ UNCHANGED <<text, text_chunks>>
    /\ UNCHANGED store_call
    /\ UNCHANGED aloneVars

\* _handle_document_upload, step 2: the Retrieval Agent indexes
IndexStage(outcomes) ==
    /\ pc = "index"
    /\ LET done == RetrievalHandle(ingestion_response, vector_store, document_chunks,
                                   outcomes, ZeroVector, TRUE)
           r == IF IndexingFailed(done.response)
                THEN StageFailed(request, "Indexing", done.response)
                ELSE UploadSuccess(request, ingestion_response, done.response)
       IN  /\ vector_store' = done.store
           /\ document_chunks' = done.chunks
           /\ retrieval_response' = done.response
           /\ handled' = Append(handled, Handled(RetrievalName, ingestion_response))
           /\ router' = route_message(router, done.response)
           /\ routed' = Append(routed, done.response)
           /\ result' = r
           /\ created' = created \o <<done.response, r>>
    /\ pc' = "done"
    /\ chunk_failures' = Cardinality({ i \in DOMAIN outcomes : outcomes[i].norm = "fail" })
    /\ UNCHANGED <<processed_documents, request, ingestion_response, llm_response,
                   next_uuid, nrequests>>
    /\ UNCHANGED <<text, text_chunks>>
    /\ UNCHANGED parser_calls
    /\ UNCHANGED store_call
    /\ UNCHANGED aloneVars

\* _handle_query_request, step 1: the Retrieval Agent retrieves
RetrieveStage(query_embedding, search_ok) ==
    /\ pc = "retrieve"
    /\ LET retrieval_message == RetrievalMessage(request)
           done == RetrievalHandle(retrieval_message, vector_store, document_chunks,
                                   <<>>, query_embedding, search_ok)
       IN  /\ vector_store' = done.store
           /\ document_chunks' = done.chunks
           /\ retrieval_response' = done.response
           /\ handled' = Append(handled, Handled(RetrievalName, retrieval_message))
           /\ router' = route_message(router, done.response)
           /\ routed' = Append(routed, done.response)
           /\ IF RetrievalFailed(done.response)
              THEN LET r == StageFailed(request, "Retrieval", done.response)
                   IN  pc' = "done" /\ result' = r
                       /\ created' = created \o <<retrieval_message, done.response, r>>
              ELSE pc' = "synthesize" /\ result' = result
                   /\ created' = created \o <<retrieval_message, done.response>>
    /\ UNCHANGED <<processed_documents, request,
                   ingestion_response, llm_response, chunk_failures, next_uuid, nrequests>>
    /\ UNCHANGED <<text, text_chunks>>
    /\ UNCHANGED parser_calls
    /\ UNCHANGED store_call
    /\ UNCHANGED aloneVars

\* _handle_query_request, step 2: the LLM response agent
SynthesizeStage ==
    /\ pc = "synthesize"
    /\ LET llm_message == LLMMessage(request, retrieval_response)
           response == LLMHandle(llm_message)
           r == IF LLMFailed(response)
                THEN StageFailed(request, "LLM response", response)
                ELSE QuerySuccess(request, response)
       IN  /\ llm_response' = response
           /\ handled' = Append(handled, Handled(LLMName, llm_message))
           /\ router' = route_message(router, response)
           /\ routed' = Append(routed, response)
           /\ result' = r
           /\ created' = created \o <<llm_message, response, r>>
    /\ pc' = "done"
    /\ UNCHANGED <<processed_documents, document_chunks, vector_store, request,
                   ingestion_response, retrieval_response, chunk_failures, next_uuid,
                   nrequests>>
    /\ UNCHANGED <<text, text_chunks>>
    /\ UNCHANGED parser_calls
    /\ UNCHANGED store_call
    /\ UNCHANGED aloneVars

\* handle_message returns result to its caller; its locals are gone
Return ==
    /\ pc = "done"
    /\ pc' = "idle"
    /\ request' = NoMessage
    /\ ingestion_response' = NoMessage
    /\ retrieval_response' = NoMessage
    /\ llm_response' = NoMessage
    /\ result' = NoMessage
    /\ handled' = <<>>
    /\ created' = <<>>
    /\ chunk_failures' = 0
    /\ parser_calls' = <<>>
    /\ UNCHANGED <<router, processed_documents, document_chunks, vector_store,
                   routed, next_uuid, nrequests>>
    /\ UNCHANGED <<text, text_chunks>>
    /\ UNCHANGED store_call
    /\ UNCHANGED aloneVars

\* CoordinatorAgent.clear_documents
\* CoordinatorAgent.get_system_status
get_system_status(documents, dchunks, r) ==
    [coordinator |-> "active",
     processed_documents |-> Cardinality(DOMAIN documents),
     indexed_chunks |-> get_indexed_count(dchunks),
     total_messages |-> Len(r.message_history),
     agents |-> [ingestion |-> "active", retrieval |-> "active", llm_response |-> "active"]]

ClearDocuments ==
    /\ pc = "idle"
    /\ processed_documents' = <<>>
    /\ vector_store' = clear(vector_store)
    /\ document_chunks' = <<>>
    /\ router' = clear_history(router)
    /\ routed' = <<>>
    /\ UNCHANGED <<pc, request, ingestion_response, retrieval_response, llm_response,
                   result, handled, created, chunk_failures, next_uuid, nrequests>>
    /\ UNCHANGED <<text, text_chunks>>
    /\ UNCHANGED parser_calls
    /\ UNCHANGED store_call
    /\ UNCHANGED aloneVars

\* per chunk of a batch of n, its embedding or a failure; at most MaxFailures fail
Outcomes(n) ==
    { o \in [1..n -> Embeddings \cup {FailOutcome}] :
        Cardinality({ i \in 1..n : o[i].norm = "fail" }) <= MaxFailures }

\* the chunks the Retrieval Agent is about to be handed
PendingChunks == Get(ingestion_response.payload, "chunks", <<>>)

Next ==
    \/ \E message \in Requests(nrequests + 1) : HandleMessage(message)
    \/ \E parse_ok \in BOOLEAN, parsed_words \in ParsedWordCounts :
            IngestStage(parse_ok, parsed_words)
    \/ \E outcomes \in Outcomes(Len(PendingChunks)) :
            IndexStage(outcomes)
    \/ \E query_embedding \in Embeddings \cup {ZeroVector}, search_ok \in BOOLEAN :
            RetrieveStage(query_embedding, search_ok)
    \/ SynthesizeStage
    \/ Return
    \/ ClearDocuments

Spec == Init /\ [][Next]_vars


(***************************************************************************)
(* The router on its own: any sequence of route_message and clear_history. *)
(***************************************************************************)
RouterMessages ==
    { MCPMessage(UIName, CoordinatorName, type, t, [status |-> "ping"]) :
        type \in {"QUERY_REQUEST", "ERROR"}, t \in TraceIds }

RouteMessage(message) ==
    /\ Len(routed) < MaxRouted
    /\ router' = route_message(router, message)
    /\ routed' = Append(routed, message)
    /\ UNCHANGED <<processed_documents, document_chunks, vector_store, pc, request,
                   ingestion_response, retrieval_response, llm_response, result,
                   handled, created, chunk_failures, next_uuid, nrequests>>
    /\ UNCHANGED <<text, text_chunks>>
    /\ UNCHANGED parser_calls
    /\ UNCHANGED store_call
    /\ UNCHANGED aloneVars

ClearHistory ==
    /\ router' = clear_history(router)
    /\ routed' = <<>>
    /\ UNCHANGED <<processed_documents, document_chunks, vector_store, pc, request,
                   ingestion_response, retrieval_response, llm_response, result,
                   handled, created, chunk_failures, next_uuid, nrequests>>
    /\ UNCHANGED <<text, text_chunks>>
    /\ UNCHANGED parser_calls
    /\ UNCHANGED store_call
    /\ UNCHANGED aloneVars

NextRouter ==
    \/ \E message \in RouterMessages : RouteMessage(message)
    \/ ClearHistory

SpecRouter == Init /\ [][NextRouter]_vars

(***************************************************************************)
(* The chunker on its own: _chunk_text applied to a text of any length.    *)
(***************************************************************************)
ChunkText(nwords) ==
    /\ text' = nwords
    /\ text_chunks' = chunk_text(nwords, "notes.txt", next_uuid)
    /\ UNCHANGED <<router, processed_documents, document_chunks, vector_store, pc,
                   request, ingestion_response, retrieval_response, llm_response,
                   result, handled, created, chunk_failures, routed, next_uuid,
                   nrequests>>
    /\ UNCHANGED parser_calls
    /\ UNCHANGED store_call
    /\ UNCHANGED aloneVars

NextChunk == \E nwords \in 0..MaxWords : ChunkText(nwords)

SpecChunk == Init /\ [][NextChunk]_vars

(***************************************************************************)
(* The Retrieval Agent and its vector store on their own: batches as the   *)
(* Ingestion Agent makes them, retrieval requests, soft deletes and clears.*)
(***************************************************************************)
\* the DOCUMENT_PARSED messages the Ingestion Agent answers to small uploads
ParsedMessages(uuid0) ==
    { IngestionHandle(MCPMessage(UIName, CoordinatorName, "DOCUMENT_UPLOAD", 1,
                                 Upload(file_name, Bytes(nwords))),
                      <<>>, uuid0, TRUE, 0)
        : file_name \in {"a.txt"}, nwords \in {1, 1001} }

RetrievalRequests ==
    { MCPMessage(CoordinatorName, RetrievalName, "RETRIEVAL_REQUEST", 1,
                 [query |-> "what is x", top_k |-> top_k]) : top_k \in {2, TopK} }

\* the embeddings of the texts and queries: two orthogonal directions
StoreEmbeddings == { [dir |-> 1, norm |-> "unit"], [dir |-> 3, norm |-> "unit"] }

StoreOutcomes(n) ==
    { o \in [1..n -> StoreEmbeddings \cup {FailOutcome}] :
        Cardinality({ i \in 1..n : o[i].norm = "fail" }) <= MaxFailures }

\* RetrievalAgent.handle_message on a DOCUMENT_PARSED message
IndexDocument(parsed, outcomes) ==
    /\ nrequests < MaxCalls
    /\ ntotal(vector_store) + Len(parsed.response.payload.chunks) <= MaxStored
    /\ LET done == RetrievalHandle(parsed.response, vector_store, document_chunks,
                                   outcomes, ZeroVector, TRUE)
       IN  /\ vector_store' = done.store
           /\ document_chunks' = done.chunks
           /\ retrieval_response' = done.response
    /\ next_uuid' = parsed.uuid
    /\ nrequests' = nrequests + 1
    /\ store_call' = NoCall
    /\ UNCHANGED <<router, processed_documents, pc, request, ingestion_response,
                   llm_response, result, handled, created, chunk_failures,
                   parser_calls, routed, text, text_chunks>>
    /\ UNCHANGED aloneVars

\* RetrievalAgent.handle_message on a RETRIEVAL_REQUEST message
RetrieveContext(message, query_embedding, search_ok) ==
    /\ nrequests < MaxCalls
    /\ LET done == RetrievalHandle(message, vector_store, document_chunks,
                                   <<>>, query_embedding, search_ok)
       IN  retrieval_response' = done.response
    /\ nrequests' = nrequests + 1
    /\ store_call' = NoCall
    /\ UNCHANGED <<router, processed_documents, document_chunks, vector_store, pc,
                   request, ingestion_response, llm_response, result, handled,
                   created, chunk_failures, parser_calls, routed, next_uuid, text,
                   text_chunks>>
    /\ UNCHANGED aloneVars

\* VectorStore.remove_vector on the agent's store
RemoveVector(vector_id) ==
    /\ vector_store' = remove_vector(vector_store, vector_id)
    /\ store_call' = [op |-> "remove_vector", vector_id |-> vector_id,
                      returned |-> remove_vector_returns(vector_store, vector_id)]
    /\ UNCHANGED <<router, processed_documents, document_chunks, pc, request,
                   ingestion_response, retrieval_response, llm_response, result,
                   handled, created, chunk_failures, parser_calls, routed, next_uuid,
                   nrequests, text, text_chunks>>
    /\ UNCHANGED aloneVars

\* RetrievalAgent.clear_index
ClearIndex ==
    /\ vector_store' = clear(vector_store)
    /\ document_chunks' = <<>>
    /\ store_call' = NoCall
    /\ UNCHANGED <<router, processed_documents, pc, request, ingestion_response,
                   retrieval_response, llm_response, result, handled, created,
                   chunk_failures, parser_calls, routed, next_uuid, nrequests, text,
                   text_chunks>>
    /\ UNCHANGED aloneVars

NextRetrieval ==
    \/ \E parsed \in ParsedMessages(next_uuid) :
            \E outcomes \in StoreOutcomes(Len(parsed.response.payload.chunks)) :
                IndexDocument(parsed, outcomes)
    \/ \E message \in RetrievalRequests, query_embedding \in Embeddings,
            search_ok \in BOOLEAN :
                RetrieveContext(message, query_embedding, search_ok)
    \/ \E vector_id \in DOMAIN document_chunks \cup {next_uuid + 1} :
            RemoveVector(vector_id)
    \/ ClearIndex

SpecRetrieval == Init /\ [][NextRetrieval]_vars

(***************************************************************************)
(* The embedding generator on its own.                                     *)
(***************************************************************************)
\* the texts a caller embeds: empty, blanks, punctuation only, and texts
EmbedTexts == {"", " \t\n", "?!.", "Hello, World!", "The  cat", "a_b 9"}

\* the sizes of vocabulary a fit may give: max_features caps it
VocabularySizes == {1, MaxFeatures - 1, MaxFeatures}

GenerateEmbedding(embed_text, outcome, features) ==
    /\ Len(embedder.corpus) < MaxCorpus
    /\ LET done == generate_embedding(embedder, embed_text, outcome, features) IN
        /\ embedder' = done.generator
        /\ call' = [op |-> "generate_embedding", text |-> embed_text,
                    outcome |-> outcome, features |-> features,
                    generator |-> embedder, raised |-> done.raised,
                    returned |-> done.returned]
    /\ UNCHANGED notCallVars

NextEmbed ==
    \E embed_text \in EmbedTexts, outcome \in FitOutcomes, features \in VocabularySizes :
        GenerateEmbedding(embed_text, outcome, features)

SpecEmbed == Init /\ [][NextEmbed]_vars

(***************************************************************************)
(* add_vector called from two threads on one vector store: a thread may be *)
(* preempted between self.index.add and the recording of the mapping.      *)
(***************************************************************************)
\* thread t enters add_vector with a fresh id and adds the vector to faiss
BeginInsert(t, embedding) ==
    /\ inserting.pc[t] = Idle
    /\ ntotal(vector_store) < MaxStored
    /\ LET vector_id == ntotal(vector_store) + 1 IN
        /\ vector_store' = add_to_index(vector_store, embedding)
        /\ inserting' =
                [pc |-> [inserting.pc EXCEPT ![t] = [at |-> "added", vector_id |-> vector_id]],
                 placed |-> (vector_id :> ntotal(vector_store)) @@ inserting.placed,
                 overlapped |-> inserting.overlapped
                                \/ \E o \in Threads \ {t} : inserting.pc[o] # Idle]
    /\ UNCHANGED notThreadVars

\* thread t records the mapping and returns
RecordInsert(t) ==
    /\ inserting.pc[t] # Idle
    /\ vector_store' = record_mapping(vector_store, inserting.pc[t].vector_id,
                                      [document_name |-> "a.txt"])
    /\ inserting' = [inserting EXCEPT !.pc[t] = Idle]
    /\ UNCHANGED notThreadVars

NextThreads ==
    \/ \E t \in Threads, embedding \in StoreEmbeddings \cup {ZeroVector} :
            BeginInsert(t, embedding)
    \/ \E t \in Threads : RecordInsert(t)

SpecThreads == Init /\ [][NextThreads]_vars

(***************************************************************************)
(* The template generator on its own: sentence extraction and the choice   *)
(* of the response method, applied to a query and its context chunks.      *)
(***************************************************************************)
\* the queries asked
LLMQueries ==
    { "", "What is Python?", "python", "SHOW me the list", "how to install python",
      "enumerate python releases", "When is this", "location of python",
      "Why python", "tell me about python", "somewhat", "python timeline" }

\* the texts of the retrieved chunks
ChunkTexts ==
    { "Python is a programming language. It was created by Guido van Rossum! Short python. Is Python popular among developers? Python runs on many platforms.",
      "Pythonic code, in short, reads well. Monty's python-like humour?",
      "This sentence mentions nothing relevant.. About python, briefly!  What a long sentence about snakes ",
      "This python release is dated 2008, during winter. It is maintained by volunteers.",
      "" }

ContextChunks == { [text |-> t, source_file |-> "a.txt"] : t \in ChunkTexts }

\* the lists of at most MaxContext retrieved chunks
Contexts ==
    UNION { [1..n -> ContextChunks] : n \in 0..MaxContext }

\* a query arrives with its context; the generator keeps no state between
\* calls, so one call is followed from each query and context
Ask(query, context_chunks) ==
    /\ call.op = "none"
    /\ call' = [op |-> "asked", query |-> query, context_chunks |-> context_chunks]
    /\ UNCHANGED <<notCallVars, embedder>>

ExtractRelevantInfo ==
    /\ call.op = "asked"
    /\ call' = [op |-> "extract_relevant_info", query |-> call.query,
                context_chunks |-> call.context_chunks,
                returned |-> extract_relevant_info(call.query, call.context_chunks)]
    /\ UNCHANGED <<notCallVars, embedder>>

ContextualResponse ==
    /\ call.op = "asked"
    /\ call' = [op |-> "generate_contextual_response", query |-> call.query,
                context_chunks |-> call.context_chunks,
                returned |-> response_type(call.query)]
    /\ UNCHANGED <<notCallVars, embedder>>

\* the conversation histories passed along with a query
Histories == { <<>>, <<[role |-> "user", content |-> "earlier turn"]>> }

GenerateResponse(conversation_history) ==
    /\ call.op = "asked"
    /\ call' = [op |-> "generate_response", query |-> call.query,
                context_chunks |-> call.context_chunks,
                conversation_history |-> conversation_history,
                returned |-> generate_response_text(call.query, call.context_chunks,
                                                    conversation_history)]
    /\ UNCHANGED <<notCallVars, embedder>>

NextLLM ==
    \/ \E query \in LLMQueries, context_chunks \in Contexts : Ask(query, context_chunks)
    \/ ExtractRelevantInfo
    \/ ContextualResponse
    \/ \E conversation_history \in Histories : GenerateResponse(conversation_history)

SpecLLM == Init /\ [][NextLLM]_vars

(***************************************************************************)
(* The vector store on its own: any sequence of add_vector, remove_vector, *)
(* search, and save_to_disk followed by load_from_disk into a new store.   *)
(***************************************************************************)
\* the ids a caller passes: it may pass one twice
StoreIds == 1..2

\* the metadata a caller passes; the second as the pipeline builds it for a
\* chunk of a CSV document
StoreMetadata ==
    { [document_name |-> "a.txt"],
      [document_name |-> "data.csv", shape |-> Tuple(<<3, 2>>)] }

StoreAdd(vector_id, embedding, metadata, add_ok) ==
    /\ Len(store_history) < MaxStoreCalls
    /\ ntotal(vector_store) < MaxStored
    /\ IF add_ok
       THEN /\ vector_store' = add_vector(vector_store, vector_id, embedding, metadata)
            /\ store_history' = Append(store_history,
                    [op |-> "add_vector", vector_id |-> vector_id])
       ELSE UNCHANGED <<vector_store, store_history>>
    /\ store_call' = [op |-> "add_vector", vector_id |-> vector_id, returned |-> add_ok]
    /\ UNCHANGED notStoreVars

StoreRemove(vector_id) ==
    /\ Len(store_history) < MaxStoreCalls
    /\ vector_store' = remove_vector(vector_store, vector_id)
    /\ store_history' = Append(store_history,
            [op |-> "remove_vector", vector_id |-> vector_id])
    /\ store_call' = [op |-> "remove_vector", vector_id |-> vector_id,
                      returned |-> remove_vector_returns(vector_store, vector_id)]
    /\ UNCHANGED notStoreVars

\* search; when faiss fails it raises and returns nothing
StoreSearch(query_embedding, top_k, search_ok) ==
    /\ store_call' =
            [op |-> "search", query_embedding |-> query_embedding, top_k |-> top_k,
             raised |-> ntotal(vector_store) > 0 /\ ~search_ok,
             returned |-> IF ntotal(vector_store) > 0 /\ ~search_ok THEN <<>>
                          ELSE search(vector_store, query_embedding, top_k)]
    /\ UNCHANGED <<vector_store, store_history>>
    /\ UNCHANGED notStoreVars

\* save_to_disk, then load_from_disk on a new VectorStore, which takes the
\* place of the saved one
StoreSaveLoad ==
    /\ vector_store' = load_from_disk(VectorStore, save_to_disk(vector_store))
    /\ store_call' = [op |-> "load_from_disk", saved |-> vector_store]
    /\ UNCHANGED store_history
    /\ UNCHANGED notStoreVars

NextStore ==
    \/ \E vector_id \in StoreIds, embedding \in StoreEmbeddings \cup {ZeroVector},
            metadata \in StoreMetadata, add_ok \in BOOLEAN :
                StoreAdd(vector_id, embedding, metadata, add_ok)
    \/ \E vector_id \in StoreIds : StoreRemove(vector_id)
    \/ \E query_embedding \in StoreEmbeddings \cup {ZeroVector}, top_k \in {1, 2, TopK},
            search_ok \in BOOLEAN :
                StoreSearch(query_embedding, top_k, search_ok)
    \/ StoreSaveLoad

SpecStore == Init /\ [][NextStore]_vars

(***************************************************************************)
(* The message on its own: construction, and to_json followed by from_json.*)
(***************************************************************************)
\* the ticks of the clock
Clock == 1..2

\* the timestamps a caller passes: none, or one of its own
Timestamps == {None, "2025-06-01T12:00:00"}

\* the payloads of the messages: those of the requests, a nested map as the
\* Ingestion Agent answers with, and the same for a CSV document
MessagePayloads ==
    UploadPayloads \cup QueryPayloads
    \cup { [status |-> "success",
            metadata |-> [file_name |-> "a.txt", word_count |-> 1],
            chunks |-> <<[text |-> "x", metadata |-> [chunk_index |-> 0]]>>],
           [status |-> "success", shape |-> [kind |-> "tuple", items |-> <<3, 2>>]] }

\* MCPMessage(...)
ConstructMessage(sender, type, trace_id, payload, timestamp, now) ==
    /\ call' = [op |-> "MCPMessage", timestamp |-> timestamp,
                returned |-> MCPMessageAt(sender, CoordinatorName, type, trace_id,
                                          payload, timestamp, now)]
    /\ UNCHANGED <<notCallVars, embedder>>

\* MCPMessage.from_json(message.to_json()) for the message just constructed
RoundTripMessage(now) ==
    /\ call.op = "MCPMessage"
    /\ call' = [op |-> "from_json", message |-> call.returned,
                raised |-> to_json_raises(call.returned),
                returned |-> IF to_json_raises(call.returned) THEN None
                             ELSE from_json(to_json(call.returned), now)]
    /\ UNCHANGED <<notCallVars, embedder>>

NextMessage ==
    \/ \E sender \in {UIName, IngestionName},
          type \in {"DOCUMENT_UPLOAD", "QUERY_REQUEST", "INGESTION_RESULT"},
          trace_id \in TraceIds, payload \in MessagePayloads,
          timestamp \in Timestamps, now \in Clock :
            ConstructMessage(sender, type, trace_id, payload, timestamp, now)
    \/ \E now \in Clock : RoundTripMessage(now)

SpecMessage == Init /\ [][NextMessage]_vars

(***************************************************************************)
(* Properties.                                                             *)
(***************************************************************************)
StartsWith(s, prefix) == Len(s) >= Len(prefix) /\ SubSeq(s, 1, Len(prefix)) = prefix

WasHandledBy(agent) == \E i \in DOMAIN handled : handled[i].agent = agent

Calls(agent) == Cardinality({ i \in DOMAIN handled : handled[i].agent = agent })


\* C1: whenever handle_message has returned, for every request of the model
\* (either workflow, an unsupported type, a payload that is not a dict, any
\* outcome of the sub-agents), its result is a SUCCESS message whose payload
\* has status "success" or an ERROR message whose payload has a string under
\* "error".
C1_AlwaysAResult ==
    pc = "done" =>
        \/ /\ result.type = "SUCCESS"
           /\ "status" \in DOMAIN result.payload
           /\ result.payload.status = "success"
        \/ /\ result.type = "ERROR"
           /\ "error" \in DOMAIN result.payload
           /\ result.payload.error \in STRING

\* C1 witness: a QUERY_REQUEST whose payload is not a dict raised inside the
\* coordinator and came back as an ERROR result.
C1_Witness ==
    /\ pc = "done"
    /\ request.type = "QUERY_REQUEST"
    /\ ~IsDict(request.payload)
    /\ result.type = "ERROR"
    /\ StartsWith(result.payload.error, "Query processing workflow failed: ")

\* C2: in the ingest workflow, when the Ingestion Agent answers ERROR the
\* workflow ends at once with an ERROR result whose error text is "Ingestion
\* failed: " followed by the agent's error, the Retrieval Agent is not handed
\* any message and the vector store and the chunk map are as before the step;
\* and when ingestion answers DOCUMENT_PARSED but indexing answers ERROR, the
\* result is an ERROR whose text starts with "Indexing failed: ".
C2_IngestShortCircuit ==
    /\ [](pc = "done" /\ request.type = "DOCUMENT_UPLOAD" =>
            /\ ingestion_response.type = "ERROR" =>
                /\ result.type = "ERROR"
                /\ result.payload.error =
                        "Ingestion failed: " \o ingestion_response.payload.error
                /\ ~WasHandledBy(RetrievalName)
                /\ retrieval_response = NoMessage
            /\ ingestion_response.type # "ERROR" /\ retrieval_response.type = "ERROR" =>
                /\ result.type = "ERROR"
                /\ StartsWith(result.payload.error, "Indexing failed: "))
    /\ [][request'.type = "DOCUMENT_UPLOAD" /\ ingestion_response'.type = "ERROR" =>
            /\ vector_store' = vector_store
            /\ document_chunks' = document_chunks
            /\ pc' # "index"]_vars

\* C2 witness: with a document already indexed, an upload that the Ingestion
\* Agent refused has returned.
C2_Witness ==
    /\ pc = "done"
    /\ request.type = "DOCUMENT_UPLOAD"
    /\ ingestion_response.type = "ERROR"
    /\ StartsWith(result.payload.error, "Ingestion failed: ")
    /\ ntotal(vector_store) > 0
    /\ document_chunks # <<>>

\* C3: in the query workflow, when the query is missing or empty, or the
\* retrieval stage answers ERROR for any other reason, the result is an ERROR
\* whose text starts with "Retrieval failed: " and the LLM response agent is
\* not handed any message.
C3_RetrievalShortCircuit ==
    (/\ pc = "done"
     /\ request.type = "QUERY_REQUEST"
     /\ IsDict(request.payload)
     /\ \/ retrieval_response.type = "ERROR"
        \/ "query" \notin DOMAIN request.payload
        \/ request.payload.query = "")
    =>  /\ retrieval_response.type = "ERROR"
        /\ result.type = "ERROR"
        /\ StartsWith(result.payload.error, "Retrieval failed: ")
        /\ ~WasHandledBy(LLMName)
        /\ llm_response = NoMessage

\* C3 witness: a query workflow with the empty query string has returned.
C3_Witness ==
    /\ pc = "done"
    /\ request.type = "QUERY_REQUEST"
    /\ IsDict(request.payload)
    /\ "query" \in DOMAIN request.payload
    /\ request.payload.query = ""
    /\ result.payload.error = "Retrieval failed: No query provided for retrieval"

\* C4: within one request each sub-agent is handed at most one message; the
\* number of sub-agent calls made is fixed by the workflow's position (none
\* before the first stage, one before the second, at most two at the end); the
\* second-stage agent is called only after the first-stage agent, and only
\* when that one's response is not ERROR; and every step taken from a
\* position inside a workflow makes exactly one sub-agent call and moves to a
\* later position, so that the end is reached after at most two calls.
C4_Sequential ==
    /\ \A agent \in {IngestionName, RetrievalName, LLMName} : Calls(agent) <= 1
    /\ pc \in {"ingest", "retrieve"} => Len(handled) = 1
    /\ pc \in {"index", "synthesize"} => Len(handled) = 2
    /\ pc = "done" => Len(handled) <= 3
    /\ request.type = "DOCUMENT_UPLOAD" /\ WasHandledBy(RetrievalName) =>
            /\ handled[2].agent = IngestionName
            /\ handled[3].agent = RetrievalName
            /\ ingestion_response.type \notin {"ERROR", "NONE"}
    /\ WasHandledBy(LLMName) =>
            /\ handled[2].agent = RetrievalName
            /\ handled[3].agent = LLMName
            /\ retrieval_response.type \notin {"ERROR", "NONE"}

\* how far into its workflow a position is
Rank(position) ==
    CASE position \in {"ingest", "retrieve"} -> 1
      [] position \in {"index", "synthesize"} -> 2
      [] position = "done" -> 3
      [] OTHER -> 0

\* C4: the sub-agent calls of a workflow run one after another; every step
\* taken inside a workflow makes exactly one call and moves strictly forward, so
\* a workflow makes at most two calls, never repeats one, and terminates.
C4_SequentialNoRetry ==
    /\ []C4_Sequential
    /\ [][(pc # "idle" /\ pc # "done") =>
            (Rank(pc') > Rank(pc) /\ Len(handled') = Len(handled) + 1)]_vars

\* C4 witness: a query workflow that made both of its calls has returned.
C4_Witness ==
    /\ pc = "done"
    /\ Len(handled) = 3
    /\ handled[2].agent = RetrievalName
    /\ handled[3].agent = LLMName

\* the request is an upload of non-empty bytes under a plain-text file name
PlainTextUpload ==
    /\ request.type = "DOCUMENT_UPLOAD"
    /\ IsDict(request.payload)
    /\ {"file_name", "file_content"} \subseteq DOMAIN request.payload
    /\ \/ EndsWith(Lower(request.payload.file_name), ".txt")
       \/ EndsWith(Lower(request.payload.file_name), ".md")
    /\ request.payload.file_content.len > 0

\* the chunk count of the chunking rule in closed form: the least k >= 1 with
\* (k - 1) * (chunk_size - overlap) + chunk_size >= n, and 0 for n = 0
ExpectedChunkCount(n) ==
    IF n = 0 THEN 0
    ELSE IF n <= ChunkSize THEN 1
    ELSE 1 + ((n - ChunkSize) + (ChunkSize - Overlap) - 1) \div (ChunkSize - Overlap)

\* the result is SUCCESS with the stored document's id, the file name and the
\* rule's chunk count, and the stored document has that many chunks
IngestEndToEnd ==
    /\ result.type = "SUCCESS"
    /\ result.payload.document_id \in DOMAIN processed_documents
    /\ get_document(processed_documents, result.payload.document_id).name
            = request.payload.file_name
    /\ result.payload.file_name = request.payload.file_name
    /\ result.payload.indexed_chunks
            = ExpectedChunkCount(request.payload.file_content.words)
    /\ Len(get_document(processed_documents, result.payload.document_id).chunks)
            = ExpectedChunkCount(request.payload.file_content.words)

\* C5 as stated: every plain-text upload of N words, no chunk failing, returns
\* SUCCESS with the rule's chunk count, N = 0 included.
C5_Original ==
    pc = "done" /\ PlainTextUpload /\ chunk_failures = 0 => IngestEndToEnd

\* C5: a plain-text upload of N >= 1 words in which no chunk fails returns
\* SUCCESS carrying the document id, the file name and indexed_chunks equal to
\* the chunk count of the chunking rule for N words, and looking the document
\* id up in the Ingestion Agent gives a document with that many chunks.
C5_IngestEndToEnd ==
    (/\ pc = "done"
     /\ PlainTextUpload
     /\ chunk_failures = 0
     /\ request.payload.file_content.words >= 1)
    => IngestEndToEnd

\* C5 witness: the upload of a 2000-word text has returned SUCCESS.
C5_Witness ==
    /\ pc = "done"
    /\ PlainTextUpload
    /\ chunk_failures = 0
    /\ request.payload.file_content.words = 2000
    /\ result.type = "SUCCESS"
    /\ result.payload.indexed_chunks = 3

\* C6: when a query workflow returns SUCCESS, the message handed to the
\* Retrieval Agent was a RETRIEVAL_REQUEST with the request's query and
\* top_k = 5, the result's sources are the retrieval response's sources, and
\* context_chunks_used is the number of chunks retrieval returned, at most 5.
C6_QuerySuccess ==
    pc = "done" /\ request.type = "QUERY_REQUEST" /\ result.type = "SUCCESS" =>
        /\ handled[2] = Handled(RetrievalName,
                MCPMessage(CoordinatorName, RetrievalName, "RETRIEVAL_REQUEST",
                           request.trace_id,
                           [query |-> request.payload.query, top_k |-> 5]))
        /\ result.payload.sources = retrieval_response.payload.sources
        /\ result.payload.context_chunks_used
                = Len(retrieval_response.payload.retrieved_chunks)
        /\ result.payload.context_chunks_used <= 5

\* C6 witness: a query against an index of six vectors returned five chunks.
C6_Witness ==
    /\ pc = "done"
    /\ request.type = "QUERY_REQUEST"
    /\ result.type = "SUCCESS"
    /\ ntotal(vector_store) = 6
    /\ result.payload.context_chunks_used = 5
    /\ Len(result.payload.sources) = 5

\* C7: a query workflow whose query is not empty, run while the vector store
\* holds no vector, returns SUCCESS with the fixed insufficient-context text,
\* no sources and context_chunks_used = 0.
C7_EmptyIndexQuery ==
    (/\ pc = "done"
     /\ request.type = "QUERY_REQUEST"
     /\ IsDict(request.payload)
     /\ "query" \in DOMAIN request.payload
     /\ request.payload.query # ""
     /\ ntotal(vector_store) = 0)
    =>  /\ result.type = "SUCCESS"
        /\ result.payload.response = NoContextResponse
        /\ result.payload.sources = <<>>
        /\ result.payload.context_chunks_used = 0

\* C7 witness: such a query has returned after a document was uploaded and
\* the documents were cleared.
C7_Witness ==
    /\ pc = "done"
    /\ request.type = "QUERY_REQUEST"
    /\ result.type = "SUCCESS"
    /\ result.payload.response = NoContextResponse
    /\ next_uuid > 0
    /\ processed_documents = <<>>
    /\ ntotal(vector_store) = 0

\* the messages of s whose trace id is t, in order
OfTrace(s, t) == SelectSeq(s, LAMBDA m : m.trace_id = t)

\* C8: after any sequence of route_message calls, get_trace_history(t) is, for
\* every trace id t (one never routed included), the sequence of the messages
\* routed under t, each once and in routing order, and message_history is the
\* sequence of all messages routed.
C8_RouterHistory ==
    /\ router.message_history = routed
    /\ \A t \in TraceIds \cup {0} : get_trace_history(router, t) = OfTrace(routed, t)

\* C8 witness: two messages of one trace were routed with a message of another
\* trace between them.
C8_Witness ==
    \E i, j, k \in DOMAIN routed :
        /\ i < j /\ j < k
        /\ routed[i].trace_id = routed[k].trace_id
        /\ routed[i].trace_id # routed[j].trace_id
        /\ routed[i] # routed[k]

\* C9 as stated: when a workflow has returned, every message constructed
\* during it (the request, the requests built for sub-agents, the sub-agents'
\* responses, the final result) is in the trace history of its trace id.
C9_AllMessagesLogged ==
    pc = "done" =>
        \A i \in DOMAIN created :
            InSeq(created[i], get_trace_history(router, created[i].trace_id))

\* C10 as stated: every message handled is handled once, by the agent its
\* receiver field names.
C10_HandledByReceiver ==
    /\ \A i \in DOMAIN handled : handled[i].message.receiver = handled[i].agent
    /\ \A i, j \in DOMAIN handled : handled[i].message = handled[j].message => i = j

\* the messages of the request that the agent was handed
HandledBy(agent) == { handled[i].message : i \in { j \in DOMAIN handled : handled[j].agent = agent } }

\* C11: every ERROR message constructed while a request is handled, by an
\* agent or by the Coordinator (its stage-failure results included), has the
\* payload keys "error" and "original_type", and original_type is the type of
\* a message that was being handled.  The code violates it: the Coordinator's
\* stage-failure results carry "status" and "error" only.
C11_ErrorPayloadKeys ==
    \A i \in DOMAIN created :
        created[i].type = "ERROR" =>
            /\ "error" \in DOMAIN created[i].payload
            /\ "original_type" \in DOMAIN created[i].payload
            /\ \E j \in DOMAIN handled :
                    created[i].payload.original_type = handled[j].message.type

\* C12: when the response generator raised inside the LLM response agent, or
\* the Ingestion Agent was handed a payload that is not a dict, the agent's
\* response is an ERROR and so is the result of the request.  The code
\* violates it: generate_response turns its exception into an answer text and
\* the agent reports LLM_RESPONSE.
C12_FailuresAreErrors ==
    pc = "done" =>
        /\ \A m \in HandledBy(LLMName) :
                (/\ IsDict(m.payload)
                 /\ GeneratorRaised(Get(m.payload, "query", None),
                                    Get(m.payload, "retrieved_chunks", <<>>)))
                    => (llm_response.type = "ERROR" /\ result.type = "ERROR")
        /\ \A m \in HandledBy(IngestionName) :
                ~IsDict(m.payload)
                    => (ingestion_response.type = "ERROR" /\ result.type = "ERROR")


\* the start and end offsets of the chunks _chunk_text returned
StartOffsets == [k \in DOMAIN text_chunks |-> text_chunks[k].start_word]
EndOffsets == [k \in DOMAIN text_chunks |-> text_chunks[k].end_word]

\* C13 as stated: chunking a 2500-word text yields 4 chunks, starting at 0,
\* 800, 1600, 2400 and ending at 1000, 1800, 2500, 2500.
C13_Original ==
    text = 2500 =>
        /\ Len(text_chunks) = 4
        /\ StartOffsets = <<0, 800, 1600, 2400>>
        /\ EndOffsets = <<1000, 1800, 2500, 2500>>

\* C13: chunking a 2500-word text with chunk_size 1000 and overlap 200 yields
\* exactly 3 chunks, starting at 0, 800, 1600 and ending at 1000, 1800, 2500:
\* the chunk at offset 1600 reaches the end of the text (1600 + 1000 >= 2500)
\* and is the last.
C13_Chunking2500 ==
    text = 2500 =>
        /\ Len(text_chunks) = 3
        /\ StartOffsets = <<0, 800, 1600>>
        /\ EndOffsets = <<1000, 1800, 2500>>

\* C13 witness: _chunk_text has been applied to a text of 2500 words.
C13_Witness == text = 2500 /\ Len(text_chunks) > 0 /\ text_chunks[Len(text_chunks)].end_word = 2500

\* C14: for a text of N words, chunk k (from 0) has chunk_index k, start_word
\* 800*k, end_word min(800*k + 1000, N) and word_count end_word - start_word;
\* every offset before the last has i + 1000 < N and the last has
\* i + 1000 >= N; N = 0 yields no chunk and N > 0 at least one.
C14_ChunkOffsets ==
    /\ \A k \in DOMAIN text_chunks :
            LET i == 800 * (k - 1) IN
            /\ text_chunks[k].chunk_index = k - 1
            /\ text_chunks[k].start_word = i
            /\ text_chunks[k].end_word = (IF i + 1000 <= text THEN i + 1000 ELSE text)
            /\ text_chunks[k].word_count = text_chunks[k].end_word - text_chunks[k].start_word
            /\ (k < Len(text_chunks)) = (i + 1000 < text)
    /\ (text = 0) = (text_chunks = <<>>)

\* C14 witness: a text whose last chunk is cut short by the end of the text,
\* after two full chunks.
C14_Witness ==
    /\ text = 1801
    /\ Len(text_chunks) = 3
    /\ text_chunks[3].word_count = 201


\* the file name ends, case-insensitively, in one of the six supported extensions
SupportedName(file_name) ==
    \E ext \in {".pdf", ".pptx", ".docx", ".csv", ".txt", ".md"} :
        EndsWith(Lower(file_name), ext)

\* the upload's file name is empty, or its content is empty
EmptyUpload(message) ==
    /\ IsDict(message.payload)
    /\ {"file_name", "file_content"} \subseteq DOMAIN message.payload
    /\ message.payload.file_name = "" \/ message.payload.file_content.len = 0

\* the upload has a name and content, and the name's extension is unsupported
UnsupportedUpload(message) ==
    /\ IsDict(message.payload)
    /\ {"file_name", "file_content"} \subseteq DOMAIN message.payload
    /\ message.payload.file_name # "" /\ message.payload.file_content.len > 0
    /\ ~SupportedName(message.payload.file_name)

\* C15: once the Ingestion Agent has answered an upload whose file name is
\* empty, whose content is empty or whose name has no supported extension, its
\* response is an ERROR; for the unsupported extension the parser was not
\* called; and a step in which the Ingestion Agent answers ERROR leaves the
\* document store as it was.
C15_UploadRejected ==
    /\ [](pc \in {"index", "done"} /\ request.type = "DOCUMENT_UPLOAD" =>
            /\ (EmptyUpload(request) \/ UnsupportedUpload(request)) =>
                    ingestion_response.type = "ERROR"
            /\ UnsupportedUpload(request) => parser_calls = <<>>)
    /\ [][(pc = "ingest" /\ ingestion_response'.type = "ERROR") =>
                processed_documents' = processed_documents]_vars

\* C15 witness: with a document already stored, an upload named tool.exe has
\* been refused by the Ingestion Agent.
C15_Witness ==
    /\ pc = "done"
    /\ UnsupportedUpload(request)
    /\ ingestion_response.type = "ERROR"
    /\ processed_documents # <<>>


\* the chunks of the batch that the Retrieval Agent holds after indexing
Inserted(batch) == { i \in DOMAIN batch : batch[i].id \in DOMAIN document_chunks }

\* C16: in the ingest workflow, once the Retrieval Agent has answered the
\* batch, its response is an ERROR exactly when the batch is empty; for a
\* non-empty batch total_chunks is the number of chunks submitted,
\* indexed_chunks is the number of them inserted, which is the number
\* submitted less the number that failed, and the result of the workflow is
\* SUCCESS with that count; and the indexing step adds exactly indexed_chunks
\* vectors to the index.
C16_PartialIndexing ==
    /\ [](pc = "done" /\ request.type = "DOCUMENT_UPLOAD"
                /\ ingestion_response.type = "DOCUMENT_PARSED" =>
            LET batch == ingestion_response.payload.chunks IN
            /\ (retrieval_response.type = "ERROR") = (batch = <<>>)
            /\ batch # <<>> =>
                /\ retrieval_response.payload.total_chunks = Len(batch)
                /\ retrieval_response.payload.indexed_chunks = Cardinality(Inserted(batch))
                /\ retrieval_response.payload.indexed_chunks = Len(batch) - chunk_failures
                /\ retrieval_response.payload.indexed_chunks
                        <= retrieval_response.payload.total_chunks
                /\ result.type = "SUCCESS"
                /\ result.payload.indexed_chunks = Cardinality(Inserted(batch)))
    /\ [][(pc = "index") =>
                ntotal(vector_store') - ntotal(vector_store) =
                    (IF retrieval_response'.type = "ERROR" THEN 0
                     ELSE retrieval_response'.payload.indexed_chunks)]_vars

\* C16 witness: the first chunk of a batch failed, the last one was indexed all
\* the same, and the workflow returned SUCCESS.
C16_Witness ==
    /\ pc = "done"
    /\ request.type = "DOCUMENT_UPLOAD"
    /\ ingestion_response.type = "DOCUMENT_PARSED"
    /\ chunk_failures = 1
    /\ LET batch == ingestion_response.payload.chunks IN
        /\ Len(batch) >= 2
        /\ 1 \notin Inserted(batch)
        /\ Len(batch) \in Inserted(batch)
    /\ result.type = "SUCCESS"


\* the reference strings of a list of retrieved chunks, one per chunk
References(retrieved_chunks) ==
    [i \in DOMAIN retrieved_chunks |->
        retrieved_chunks[i].source_file \o " (chunk "
            \o ToString(retrieved_chunks[i].chunk_index) \o ")"]

\* the position of the first occurrence of x in the sequence
FirstAt(x, seq) == CHOOSE i \in DOMAIN seq : seq[i] = x /\ \A j \in 1..(i - 1) : seq[j] # x

\* C17: in a retrieval result, the sources are exactly the distinct reference
\* strings "{document_name} (chunk {chunk_index})" of the retrieved chunks, none
\* twice, in the order of their first occurrence in the ranked chunk list; so
\* there are no more sources than retrieved chunks.
C17_Sources ==
    retrieval_response.type = "RETRIEVAL_RESULT" =>
        LET sources == retrieval_response.payload.sources
            refs == References(retrieval_response.payload.retrieved_chunks)
        IN  /\ { sources[i] : i \in DOMAIN sources } = { refs[i] : i \in DOMAIN refs }
            /\ \A i, j \in DOMAIN sources : i # j => sources[i] # sources[j]
            /\ \A i, j \in DOMAIN sources :
                    i < j => FirstAt(sources[i], refs) < FirstAt(sources[j], refs)
            /\ Len(sources) <= Len(refs)

\* C17 witness: three chunks were retrieved, the third with the reference of
\* the first (two documents of one name), and two sources were reported.
C17_Witness ==
    /\ retrieval_response.type = "RETRIEVAL_RESULT"
    /\ Len(retrieval_response.payload.retrieved_chunks) = 3
    /\ Len(retrieval_response.payload.sources) = 2
    /\ LET refs == References(retrieval_response.payload.retrieved_chunks)
       IN  refs[1] # refs[2] /\ (refs[3] = refs[1] \/ refs[3] = refs[2])

\* the ids that have a vector in the index
VectorIds(vs) == { vs.index_to_id[p] : p \in DOMAIN vs.index_to_id }

\* C18: in every state the workflows and clear_documents reach, the ids with a
\* vector in the index (one per index position), the ids with a metadata
\* entry and the chunk ids of the Retrieval Agent's chunk map are the same
\* set, and the agent's indexed count is the index's total vector count.
C18_IndexConsistent ==
    /\ DOMAIN vector_store.index_to_id = 0..(ntotal(vector_store) - 1)
    /\ VectorIds(vector_store) = DOMAIN vector_store.id_to_index
    /\ VectorIds(vector_store) = DOMAIN vector_store.metadata_store
    /\ VectorIds(vector_store) = DOMAIN document_chunks
    /\ get_indexed_count(document_chunks) = ntotal(vector_store)

\* C18 witness: a second upload, one chunk of which failed, has been indexed
\* next to the chunks of an earlier document.
C18_Witness ==
    /\ pc = "done"
    /\ nrequests = 2
    /\ request.type = "DOCUMENT_UPLOAD"
    /\ retrieval_response.type = "INGESTION_COMPLETE"
    /\ chunk_failures = 1
    /\ ntotal(vector_store) > retrieval_response.payload.indexed_chunks
    /\ retrieval_response.payload.indexed_chunks > 0

\* stats().active_vectors
ActiveVectors(vs) == get_statistics(vs).active_vectors

\* the id has a metadata entry that is not flagged deleted
IsActive(vs, vector_id) ==
    /\ vector_id \in DOMAIN vs.metadata_store
    /\ ("deleted" \in DOMAIN vs.metadata_store[vector_id]
            => ~vs.metadata_store[vector_id].deleted)

\* C19 as stated, for the calls that report a deletion: after every delete(id)
\* that returns true, active_vectors is one less than before the call.
C19_Original ==
    [][(store_call'.op = "remove_vector" /\ store_call'.returned) =>
            ActiveVectors(vector_store') = ActiveVectors(vector_store) - 1]_vars

\* C19: after delete(id) of an id that is in the index and not yet flagged
\* deleted, stats().active_vectors is one less than before the call; after
\* delete of an unknown id or of one already flagged, it is what it was.
C19_SoftDeleteCount ==
    [][(store_call'.op = "remove_vector") =>
            ActiveVectors(vector_store') =
                (IF IsActive(vector_store, store_call'.vector_id)
                 THEN ActiveVectors(vector_store) - 1
                 ELSE ActiveVectors(vector_store))]_vars

\* C19 witness: an id has just been deleted, and a search of the index still
\* returns it.
C19_Witness ==
    /\ store_call.op = "remove_vector"
    /\ store_call.returned
    /\ ActiveVectors(vector_store) < ntotal(vector_store)
    /\ \E q \in Embeddings :
            LET found == search(vector_store, q, TopK)
            IN  \E i \in DOMAIN found : found[i].id = store_call.vector_id

\* C20: a call of delete(id) leaves the index's vectors, their number, the
\* id/position mappings and the chunk map as they were and every search
\* returns what it returned before; for a known id the call returns true and
\* the only change is deleted = true in that id's metadata; for an unknown id
\* it returns false and the store is unchanged.
C20_DeleteFrame ==
    [][(store_call'.op = "remove_vector") =>
        LET vector_id == store_call'.vector_id
            before == vector_store.metadata_store
            after == vector_store'.metadata_store
        IN  /\ vector_store'.index = vector_store.index
            /\ ntotal(vector_store') = ntotal(vector_store)
            /\ vector_store'.id_to_index = vector_store.id_to_index
            /\ vector_store'.index_to_id = vector_store.index_to_id
            /\ vector_store'.next_index = vector_store.next_index
            /\ document_chunks' = document_chunks
            /\ DOMAIN after = DOMAIN before
            /\ \A v \in DOMAIN before \ {vector_id} : after[v] = before[v]
            /\ \A q \in StoreEmbeddings :
                    search(vector_store', q, TopK) = search(vector_store, q, TopK)
            /\ search(vector_store', ZeroVector, 1) = search(vector_store, ZeroVector, 1)
            /\ vector_id \in DOMAIN before =>
                    /\ store_call'.returned
                    /\ DOMAIN after[vector_id] = DOMAIN before[vector_id] \cup {"deleted"}
                    /\ after[vector_id].deleted
                    /\ \A key \in DOMAIN before[vector_id] \ {"deleted"} :
                            after[vector_id][key] = before[vector_id][key]
            /\ vector_id \notin DOMAIN before =>
                    /\ ~store_call'.returned
                    /\ vector_store' = vector_store]_vars

\* C20 witness: one of several stored ids has been deleted; the index holds as
\* many vectors as before and the others are not flagged.
C20_Witness ==
    /\ store_call.op = "remove_vector"
    /\ store_call.returned
    /\ ntotal(vector_store) >= 2
    /\ vector_store.metadata_store[store_call.vector_id].deleted
    /\ \E v \in DOMAIN vector_store.metadata_store : IsActive(vector_store, v)

\* the add_vector calls performed on the store, by their place in the history
InsertCalls ==
    { i \in 1..Len(store_history) : store_history[i].op = "add_vector" }

\* the inserted vectors on which remove_vector was called afterwards
FlaggedDeleted ==
    { i \in InsertCalls : \E j \in (i + 1)..Len(store_history) :
        /\ store_history[j].op = "remove_vector"
        /\ store_history[j].vector_id = store_history[i].vector_id }

\* C21: after any sequence of add_vector and remove_vector calls,
\* get_statistics reports total_vectors equal to the number of inserts
\* performed, active_vectors equal to the number of inserted vectors not
\* flagged deleted, and deleted_vectors equal to the number on which
\* remove_vector was called.
C21_StatsCounts ==
    LET stats == get_statistics(vector_store) IN
    /\ stats.total_vectors = Cardinality(InsertCalls)
    /\ stats.active_vectors = Cardinality(InsertCalls \ FlaggedDeleted)
    /\ stats.deleted_vectors = Cardinality(FlaggedDeleted)
    /\ stats.total_vectors = stats.active_vectors + stats.deleted_vectors

\* position o of the index comes before position p in the ranking by score,
\* then insertion order: a higher score, or the same score and inserted earlier
RanksBefore(vs, query, o, p) ==
    \/ InnerProduct(query, vs.index[o]) > InnerProduct(query, vs.index[p])
    \/ /\ InnerProduct(query, vs.index[o]) = InnerProduct(query, vs.index[p])
       /\ o < p

\* the position of the index at place i of that ranking
Ranked(vs, query, i) ==
    CHOOSE p \in 1..ntotal(vs) :
        Cardinality({ o \in 1..ntotal(vs) : RanksBefore(vs, query, o, p) }) = i - 1

\* C22: search returns min(top_k, vectors held) results, ordered by
\* non-increasing score, the first inserted first among equal scores; on an
\* empty index it returns the empty list.
C22_SearchRanking ==
    (store_call.op = "search" /\ ~store_call.raised) =>
        LET query == Normalize(store_call.query_embedding)
            found == store_call.returned
        IN  /\ Len(found) = Min(store_call.top_k, ntotal(vector_store))
            /\ \A i \in 1..Len(found) :
                    LET p == Ranked(vector_store, query, i) IN
                    /\ found[i].id = vector_store.index_to_id[p - 1]
                    /\ found[i].score = InnerProduct(query, vector_store.index[p])

\* C23: save_to_disk followed by load_from_disk into a new store restores
\* metadata_store, id_to_index, index_to_id, next_index and dimension equal to
\* the saved ones, index_to_id keyed by integers, and every search finds on the
\* loaded store what it finds on the saved one.
C23_SaveLoadRoundTrip ==
    store_call.op = "load_from_disk" =>
        /\ vector_store.metadata_store = store_call.saved.metadata_store
        /\ vector_store.id_to_index = store_call.saved.id_to_index
        /\ vector_store.index_to_id = store_call.saved.index_to_id
        /\ DOMAIN vector_store.index_to_id \subseteq Nat
        /\ vector_store.next_index = store_call.saved.next_index
        /\ vector_store.dimension = store_call.saved.dimension
        /\ \A q \in StoreEmbeddings \cup {ZeroVector}, k \in {1, TopK} :
                search(vector_store, q, k) = search(store_call.saved, q, k)

\* C24: for every message, to_json followed by from_json gives a message equal
\* field for field (a DOCUMENT_UPLOAD payload and nested payload maps
\* included), and the timestamp of a constructed message is never None: filled
\* in when omitted, kept when supplied.
C24_MessageRoundTrip ==
    /\ call.op = "MCPMessage" =>
            /\ call.returned.timestamp # None
            /\ call.timestamp # None => call.returned.timestamp = call.timestamp
    /\ call.op = "from_json" =>
            /\ ~call.raised
            /\ call.returned = call.message

\* C25: the corpus is append-only and grows by exactly one entry, the cleaned
\* text, in a generate_embedding call whose cleaned text is non-empty; a call
\* whose cleaned text is empty returns the zero vector of the fixed dimension
\* and leaves the corpus and the fitted model as they were.
C25_CorpusGrowth ==
    call.op = "generate_embedding" =>
        LET cleaned_text == clean_text(call.text) IN
        IF Strip(cleaned_text) # ""
        THEN embedder.corpus = Append(call.generator.corpus, cleaned_text)
        ELSE /\ embedder = call.generator
             /\ ~call.raised
             /\ call.returned = [length |-> EmbeddingDimension, kind |-> "zeros"]

\* a call with a blank text on a generator whose corpus grew in a call where
\* sklearn raised
C25_Witness ==
    /\ call.op = "generate_embedding"
    /\ call.text = " \t\n"
    /\ Len(embedder.corpus) = MaxCorpus - 1
    /\ ~embedder.is_fitted

\* C26: generate_embedding never raises and always returns a vector of
\* exactly 1000 components: padded or truncated on the normal path, the zero
\* vector for an empty text, the random fallback on an internal failure.
C26_FixedDimension ==
    call.op = "generate_embedding" =>
        /\ ~call.raised
        /\ call.returned.length = 1000
        /\ call.returned.kind \in {"tfidf", "zeros", "random"}

\* a call in which sklearn raised
C26_Witness ==
    /\ call.op = "generate_embedding"
    /\ call.returned.kind = "random"
    /\ Len(embedder.corpus) = Len(call.generator.corpus) + 1

\* the ids whose mapping is recorded
Recorded == DOMAIN vector_store.id_to_index

\* C27: while no two add_vector calls were in flight together, every recorded
\* id is mapped to the position its own vector was added at, and that position
\* back to it; two calls that interleave between adding the vector and
\* recording the mapping can leave an id mapped to the position of the other
\* id's vector.
C27_SerializedMapping ==
    ~inserting.overlapped =>
        \A vector_id \in Recorded :
            /\ vector_store.id_to_index[vector_id] = inserting.placed[vector_id]
            /\ vector_store.index_to_id[inserting.placed[vector_id]] = vector_id

\* two interleaved calls have returned and an id is mapped to the position of
\* the other id's vector
C27_Witness ==
    /\ inserting.overlapped
    /\ \A t \in Threads : inserting.pc[t] = Idle
    /\ \E vector_id \in Recorded : \E other \in Recorded \ {vector_id} :
            vector_store.id_to_index[vector_id] = inserting.placed[other]

\* everything clear_documents is to empty is empty
AllCleared ==
    /\ processed_documents = <<>>
    /\ document_chunks = <<>>
    /\ vector_store.index = <<>>
    /\ vector_store.metadata_store = <<>>
    /\ vector_store.id_to_index = <<>>
    /\ vector_store.index_to_id = <<>>
    /\ vector_store.next_index = 0
    /\ router.message_history = <<>>
    /\ router.trace_sessions = <<>>
    /\ LET status == get_system_status(processed_documents, document_chunks, router) IN
        /\ status.processed_documents = 0
        /\ status.indexed_chunks = 0
        /\ status.total_messages = 0
    /\ \A trace_id \in 0..(MaxRequests + 1) : get_trace_history(router, trace_id) = <<>>

\* C28: after the Coordinator's clear_documents the document store, the chunk
\* map, the vector store (vectors, metadata, both mappings, next_index 0) and
\* both router logs are empty: the status reports zero documents, chunks and
\* messages, and the history of every trace id is empty.
C28_ClearEmptiesAll == [][ClearDocuments => AllCleared']_vars

\* cleared after a document was ingested and indexed and messages were logged
C28_Witness ==
    /\ pc = "idle"
    /\ next_uuid > 0
    /\ nrequests >= 1
    /\ processed_documents = <<>>
    /\ router.message_history = <<>>
    /\ ntotal(vector_store) = 0

\* the six shapes with keywords, in the order of priority, and their keywords
ShapeOrder == <<"explanation", "process", "list", "temporal", "location", "causal">>

ShapeKeywords ==
    <<{"what", "what is", "define", "explain"},
      {"how", "how to", "process", "procedure"},
      {"list", "show", "enumerate", "what are"},
      {"when", "date", "time"},
      {"where", "location"},
      {"why", "reason", "because"}>>

\* the shapes one of whose keywords occurs in the lowercased query
MatchingShapes(query) ==
    { i \in 1..Len(ShapeOrder) :
        \E keyword \in ShapeKeywords[i] : Contains(keyword, Lower(query)) }

\* C29: every query is classified as exactly one of the seven shapes: the
\* first of explanation, process, list, temporal, location, causal one of
\* whose keywords is a substring of the lowercased query, general if none is.
C29_Classification ==
    call.op = "generate_contextual_response" =>
        LET hits == MatchingShapes(call.query) IN
        /\ call.returned \in SetOf(ShapeOrder) \cup {"general"}
        /\ call.returned =
                IF hits = {} THEN "general"
                ELSE ShapeOrder[CHOOSE i \in hits : \A j \in hits : i <= j]

\* a query with "how" inside "show" and the word "list": process comes first
C29_Witness ==
    /\ call.op = "generate_contextual_response"
    /\ call.query = "SHOW me the list"
    /\ call.returned = "process"

\* the lowercase words of the query of the call
QueryWords == SetOf(Split(Lower(call.query)))

\* sentence j of chunk i of the call, stripped
SentenceAt(i, j) == Strip(SplitSentences(call.context_chunks[i].text)[j])

\* the sentences of the call that qualify, by chunk and place in the chunk
Qualifying ==
    { p \in UNION { {i} \X (1..Len(SplitSentences(call.context_chunks[i].text))) :
                        i \in 1..Len(call.context_chunks) } :
        /\ QueryWords \cap SetOf(Split(Lower(call.context_chunks[p[1]].text))) # {}
        /\ Len(SentenceAt(p[1], p[2])) > 20
        /\ \E word \in QueryWords : Contains(word, Lower(SentenceAt(p[1], p[2]))) }

\* the place of sentence p among the sentences of the set, in chunk order, then
\* sentence order
PlaceOf(p, sentences) ==
    1 + Cardinality({ q \in sentences :
                        q[1] < p[1] \/ (q[1] = p[1] /\ q[2] < p[2]) })

\* C30: _extract_relevant_info returns at most 5 sentences: the first 5, in
\* chunk order then sentence order, of the sentences longer than 20 characters
\* that contain a query word and come from a chunk sharing a lowercase word
\* with the query; a chunk sharing none contributes nothing.
C30_SentenceExtraction ==
    call.op = "extract_relevant_info" =>
        LET qualifying == Qualifying IN
        /\ Len(call.returned) <= 5
        /\ Len(call.returned) = Min(5, Cardinality(qualifying))
        /\ \A p \in qualifying :
                PlaceOf(p, qualifying) <= 5 =>
                    call.returned[PlaceOf(p, qualifying)] = SentenceAt(p[1], p[2])

\* more than 5 sentences qualify and 5 are returned
C30_Witness ==
    /\ call.op = "extract_relevant_info"
    /\ Cardinality(Qualifying) > 5
    /\ Len(call.returned) = 5

\* the shape of a query: the first shape with a keyword in it, else general
ShapeOf(query) ==
    LET hits == MatchingShapes(query) IN
    IF hits = {} THEN "general"
    ELSE ShapeOrder[CHOOSE i \in hits : \A j \in hits : i <= j]

\* the message of each shape when no sentence qualifies
CouldNotFind ==
    [explanation |-> "Based on the documents, I couldn't find a clear explanation for your question.",
     process |-> "I couldn't find specific process information in the documents for your question.",
     list |-> "I couldn't find list information relevant to your question in the documents.",
     temporal |-> "I couldn't find specific date or time information for your question.",
     location |-> "I couldn't find specific location information for your question.",
     causal |-> "I couldn't find specific reasoning or causal information for your question.",
     general |-> "I found some information in the documents, but it may not directly answer your question."]

\* the opening of the template of each shape
TemplateOpening ==
    [explanation |-> "Based on the uploaded documents:\n\n",
     process |-> "According to the documents, here's the relevant process information:\n\n",
     list |-> "From the documents, here are the relevant items:\n\n",
     temporal |-> "Regarding timing information from the documents:\n\n",
     location |-> "Regarding location information from the documents:\n\n",
     causal |-> "Based on the information in the documents:\n\n",
     general |-> "From the uploaded documents, here's the relevant information I found:\n\n"]

\* the sentences extracted for the call
Extracted == extract_relevant_info(call.query, call.context_chunks)

\* what holds of every answer, given the sentences extracted for it: it is
\* not empty, the fixed message for no chunks, the message of the shape when no
\* sentence qualifies, and the template of the shape otherwise
AnswerShape(extracted) ==
    /\ call.returned # ""
    /\ call.context_chunks = <<>> => call.returned = NoContextResponse
    /\ (call.context_chunks # <<>> /\ extracted = <<>>) =>
            call.returned = CouldNotFind[ShapeOf(call.query)]
    /\ (call.context_chunks # <<>> /\ extracted # <<>>) =>
            StartsWith(call.returned, TemplateOpening[ShapeOf(call.query)])

\* C31 as stated: generate_response never returns an empty answer: the fixed
\* message for no chunks, the could-not-find message of the query's shape when
\* no sentence qualifies, and otherwise the template of the shape containing
\* the extracted sentences.
C31_Original ==
    call.op = "generate_response" =>
        LET extracted == Extracted IN
        /\ AnswerShape(extracted)
        /\ call.context_chunks # <<>> =>
                \A i \in 1..Len(extracted) : Contains(extracted[i], call.returned)

\* C31: as above, where the template holds every extracted sentence for the
\* shapes explanation, process, location, causal and general; for temporal
\* only the sentences with a time word when there is one, else all; for list
\* the first 10 of the items the commas split the sentences into.
C31_Answer ==
    call.op = "generate_response" =>
        LET extracted == Extracted IN
        /\ AnswerShape(extracted)
        /\ call.context_chunks # <<>> =>
            LET shape == ShapeOf(call.query)
                timed == { i \in 1..Len(extracted) :
                            \E time_word \in TimeWords :
                                Contains(time_word, Lower(extracted[i])) }
                items == ListItems(extracted)
            IN  /\ shape \notin {"temporal", "list"} =>
                    \A i \in 1..Len(extracted) : Contains(extracted[i], call.returned)
                /\ shape = "temporal" =>
                    \A i \in 1..Len(extracted) :
                        Contains(Bullet \o " " \o extracted[i] \o "\n", call.returned)
                            <=> (timed = {} \/ i \in timed)
                /\ shape = "list" =>
                    \A i \in 1..Len(items) :
                        i <= 10 => Contains(Bullet \o " " \o items[i] \o "\n", call.returned)

\* a temporal query for which two sentences were extracted and the answer
\* holds only the one with a time word
C31_Witness ==
    /\ call.op = "generate_response"
    /\ call.query = "When is this"
    /\ Len(Extracted) = 2
    /\ Contains("dated 2008", call.returned)
    /\ ~Contains("It is maintained by volunteers", call.returned)

RECURSIVE SessionLengths(_, _)
\* the sum of the lengths of the trace sessions of the traces in ts
SessionLengths(r, ts) ==
    IF ts = {} THEN 0
    ELSE LET t == CHOOSE u \in ts : TRUE
         IN  Len(r.trace_sessions[t]) + SessionLengths(r, ts \ {t})

\* C32: after any sequence of route_message and clear_history calls, the trace
\* session of every trace id is exactly the subsequence of message_history
\* with that trace id (empty for a trace id without a session), and the length
\* of message_history is the sum of the lengths of the trace sessions.
C32_LogsAgree ==
    /\ \A t \in TraceIds \cup {0} :
          get_trace_history(router, t) = OfTrace(router.message_history, t)
    /\ \A t \in DOMAIN router.trace_sessions :
          router.trace_sessions[t] = OfTrace(router.message_history, t)
    /\ Len(router.message_history)
          = SessionLengths(router, DOMAIN router.trace_sessions)

\* C32 witness: two trace sessions of two messages each, whose messages
\* alternate in message_history.
C32_Witness ==
    /\ Len(router.message_history) = 4
    /\ \E t, u \in DOMAIN router.trace_sessions :
          /\ t # u
          /\ Len(router.trace_sessions[t]) = 2
          /\ Len(router.trace_sessions[u]) = 2
          /\ router.message_history[1].trace_id = t
          /\ router.message_history[2].trace_id = u
          /\ router.message_history[3].trace_id = t


\* the messages a workflow logs when every stage succeeds, by request type
StageSequence(type) ==
    IF type = "DOCUMENT_UPLOAD"
    THEN <<"DOCUMENT_UPLOAD", "DOCUMENT_PARSED", "INGESTION_COMPLETE">>
    ELSE <<"QUERY_REQUEST", "RETRIEVAL_RESULT", "LLM_RESPONSE">>

\* the types of the messages of a log, in order
TypesOf(log) == [i \in DOMAIN log |-> log[i].type]

\* the position in message_history of the first message of trace t
FirstOfTrace(t) ==
    CHOOSE i \in DOMAIN router.message_history :
        /\ router.message_history[i].trace_id = t
        /\ \A j \in 1..(i - 1) : router.message_history[j].trace_id # t

\* the response of the stage that failed, if one did
FailedStage ==
    IF ingestion_response.type = "ERROR" THEN ingestion_response
    ELSE IF retrieval_response.type = "ERROR" THEN retrieval_response
    ELSE IF llm_response.type = "ERROR" THEN llm_response
    ELSE NoMessage

\* C33: while an ingest or query workflow runs and when it has returned, the
\* trace history of the request's (fresh) trace id starts with the request,
\* holds every message logged since the request, all with the request's trace
\* id, and its types are a prefix of the workflow's stage sequence, optionally
\* ended by an ERROR.  When the workflow has returned: on success the history
\* is the whole stage sequence; when a stage failed, the history is the
\* stages before it followed by that stage's ERROR response; when the
\* Coordinator itself failed before the first stage (a payload that is not a
\* dict), the history is the request alone.
C33_TraceOrder ==
    (pc # "idle" /\ request.type \in {"DOCUMENT_UPLOAD", "QUERY_REQUEST"}) =>
        LET h == get_trace_history(router, request.trace_id)
            stages == StageSequence(request.type)
            n == Len(h)
        IN  /\ n >= 1 /\ n <= 3
            /\ h[1] = request
            /\ \A i \in DOMAIN h : h[i].trace_id = request.trace_id
            /\ \A i \in 2..n : h[i].sender # UIName
            /\ h = SubSeq(router.message_history, FirstOfTrace(request.trace_id),
                          Len(router.message_history))
            /\ \/ TypesOf(h) = SubSeq(stages, 1, n)
               \/ TypesOf(h) = SubSeq(stages, 1, n - 1) \o <<"ERROR">>
            /\ pc = "done" =>
                  IF result.type = "SUCCESS"
                  THEN TypesOf(h) = stages
                  ELSE IF FailedStage # NoMessage
                  THEN /\ n >= 2
                       /\ TypesOf(h) = SubSeq(stages, 1, n - 1) \o <<"ERROR">>
                       /\ h[n] = FailedStage
                  ELSE /\ ~IsDict(request.payload)
                       /\ TypesOf(h) = <<request.type>>

\* C33 witness: the second request of a run, an upload whose indexing stage
\* failed, has returned: its history is upload, DOCUMENT_PARSED, ERROR.
C33_Witness ==
    /\ pc = "done"
    /\ nrequests = 2
    /\ Len(router.message_history) > 3
    /\ TypesOf(get_trace_history(router, request.trace_id))
          = <<"DOCUMENT_UPLOAD", "DOCUMENT_PARSED", "ERROR">>


\* the uploads completed with success since the last clear: each logged one
\* INGESTION_COMPLETE
CompletedUploads ==
    Len(SelectSeq(router.message_history, LAMBDA m : m.type = "INGESTION_COMPLETE"))

\* C34 as stated: when the ingest workflow has returned a failure result, the
\* document the Ingestion Agent may have parsed for it is not in the document
\* store, no chunk of it is in the chunk map or in the Vector Index, and
\* between requests the number of processed documents does not exceed the
\* number of uploads completed with success.
C34_FailedUploadLeavesNothing ==
    /\ (/\ pc = "done"
        /\ request.type = "DOCUMENT_UPLOAD"
        /\ result.type = "ERROR"
        /\ ingestion_response.type = "DOCUMENT_PARSED") =>
            LET document_id == ingestion_response.payload.document_id
            IN  /\ document_id \notin DOMAIN processed_documents
                /\ \A c \in DOMAIN document_chunks :
                      document_chunks[c].document_id # document_id
                /\ \A c \in DOMAIN vector_store.metadata :
                      vector_store.metadata[c].document_id # document_id
    /\ pc \in {"idle", "done"} =>
            Cardinality(DOMAIN processed_documents) <= CompletedUploads


\* the three stores a workflow may write
Stores == <<processed_documents, document_chunks, vector_store>>

\* C35: every step of a query workflow (its dispatch, the retrieval stage with
\* any outcome, the synthesis stage, its return) leaves the document store,
\* the chunk map and the Vector Index (vectors, metadata, mappings, counter)
\* as they were.
C35_QueryFrame ==
    [][(request.type = "QUERY_REQUEST" \/ request'.type = "QUERY_REQUEST")
            => Stores' = Stores]_vars

\* C35 witness: with a document stored and its chunks indexed, a query workflow
\* that retrieved chunks and synthesized an answer has returned success.
C35_Witness ==
    /\ pc = "done"
    /\ request.type = "QUERY_REQUEST"
    /\ result.type = "SUCCESS"
    /\ retrieval_response.payload.total_results > 0
    /\ ntotal(vector_store) > 0
    /\ Cardinality(DOMAIN document_chunks) = ntotal(vector_store)
    /\ processed_documents # <<>>


\* the positions 0..next_index-1 of a store
Positions(vs) == 0..(vs.next_index - 1)

\* id_to_index and index_to_id are inverse bijections between the ids held
\* and the positions, and next_index counts the vectors held
MappingsAgree(vs) ==
    /\ vs.next_index = ntotal(vs)
    /\ DOMAIN vs.index_to_id = Positions(vs)
    /\ DOMAIN vs.id_to_index = DOMAIN vs.metadata_store
    /\ Cardinality(DOMAIN vs.id_to_index) = vs.next_index
    /\ \A vector_id \in DOMAIN vs.id_to_index :
          /\ vs.id_to_index[vector_id] \in Positions(vs)
          /\ vs.index_to_id[vs.id_to_index[vector_id]] = vector_id
    /\ \A k \in Positions(vs) :
          /\ vs.index_to_id[k] \in DOMAIN vs.id_to_index
          /\ vs.id_to_index[vs.index_to_id[k]] = k

\* a call either empties the store (clear) or keeps every position's id and
\* gives the vectors it inserts the next positions, in the order of insertion
\* (the order of the chunks of the batch)
InsertionOrderKept ==
    \/ vector_store' = clear(vector_store)
    \/ /\ vector_store'.next_index >= vector_store.next_index
       /\ \A k \in Positions(vector_store) :
             vector_store'.index_to_id[k] = vector_store.index_to_id[k]
       /\ \A j, k \in Positions(vector_store') \ Positions(vector_store) :
             j < k => document_chunks'[vector_store'.index_to_id[j]].chunk_index
                        < document_chunks'[vector_store'.index_to_id[k]].chunk_index

\* C36: with calls made one at a time and ids never reused, after any sequence
\* of insert, delete, search and clear calls next_index is the number of
\* vectors held, id_to_index and index_to_id are mutually inverse bijections
\* between the inserted ids and the positions 0..next_index-1, and a position
\* keeps the id of the vector inserted at it: the k-th vector inserted since
\* the last clear is at position k-1.
C36_Mappings ==
    /\ []MappingsAgree(vector_store)
    /\ [][InsertionOrderKept]_vars

\* C36 witness: after a clear, two vectors were inserted, one of them was
\* deleted and a search was answered: the positions 0 and 1 hold ids that
\* were not the first ones handed out.
C36_Witness ==
    /\ vector_store.next_index = 2
    /\ vector_store.index_to_id[0] > 1
    /\ \E vector_id \in DOMAIN vector_store.metadata_store :
          "deleted" \in DOMAIN vector_store.metadata_store[vector_id]
    /\ retrieval_response.type = "RETRIEVAL_RESULT"
    /\ retrieval_response.payload.total_results > 0


\* the word positions a chunk holds
PositionsOf(chunk) == chunk.start_word..(chunk.end_word - 1)

\* C37: for a text of N >= 1 words, every word position 0..N-1 is in some
\* chunk and the last chunk ends at N; every chunk but the last has exactly
\* 1000 words; every chunk has between 1 and 1000 words; and two consecutive
\* chunks share exactly 200 word positions.
C37_ChunkCover ==
    text >= 1 =>
        LET n == Len(text_chunks) IN
        /\ n >= 1
        /\ text_chunks[n].end_word = text
        /\ \A p \in 0..(text - 1) :
              \E k \in 1..n : p \in PositionsOf(text_chunks[k])
        /\ \A k \in 1..(n - 1) :
              /\ text_chunks[k].word_count = ChunkSize
              /\ Cardinality(PositionsOf(text_chunks[k])) = ChunkSize
        /\ \A k \in 1..n :
              /\ text_chunks[k].word_count >= 1
              /\ text_chunks[k].word_count <= ChunkSize
              /\ Cardinality(PositionsOf(text_chunks[k])) = text_chunks[k].word_count
        /\ \A k \in 1..(n - 1) :
              Cardinality(PositionsOf(text_chunks[k])
                            \cap PositionsOf(text_chunks[k + 1])) = Overlap

\* C37 witness: a text one word longer than a chunk: the second chunk holds
\* the 200 shared words and the one word left.
C37_Witness ==
    /\ text = 1001
    /\ Len(text_chunks) = 2
    /\ text_chunks[2].start_word = 800
    /\ text_chunks[2].word_count = 201


\* the conversation histories a second run may supply
OtherHistories == { <<>>, <<"earlier turn">>, <<"one", "two">> }

\* the request of the second run: the same request with history h
WithHistory(message, h) ==
    [message EXCEPT !.payload = [conversation_history |-> h] @@ @]

\* what the query workflow returns for message when its retrieval stage
\* answered retrieval: _handle_query_request from "if retrieval_response.type
\* == ERROR" on
ResultAfterRetrieval(message, retrieval) ==
    IF RetrievalFailed(retrieval)
    THEN StageFailed(message, "Retrieval", retrieval)
    ELSE LET response == LLMHandle(LLMMessage(message, retrieval))
         IN  IF LLMFailed(response)
             THEN StageFailed(message, "LLM response", response)
             ELSE QuerySuccess(message, response)

\* C38: when a query workflow has returned, a run from the same state with the
\* same query and any other conversation history hands the Retrieval Agent
\* the same request, and (the retrieval stage answering the same) returns the
\* same result: same type, response text, sources, context chunk count or
\* error.
C38_HistoryIgnored ==
    (pc = "done" /\ request.type = "QUERY_REQUEST" /\ IsDict(request.payload)) =>
        \A h \in OtherHistories :
            LET other == WithHistory(request, h)
            IN  /\ RetrievalMessage(other) = RetrievalMessage(request)
                /\ ResultAfterRetrieval(request, retrieval_response) = result
                /\ ResultAfterRetrieval(other, retrieval_response) = result

\* C38 witness: a query that came with a conversation history has been
\* answered from retrieved chunks.
C38_Witness ==
    /\ pc = "done"
    /\ request.type = "QUERY_REQUEST"
    /\ IsDict(request.payload)
    /\ "conversation_history" \in DOMAIN request.payload
    /\ request.payload.conversation_history # <<>>
    /\ result.type = "SUCCESS"
    /\ result.payload.context_chunks_used > 0
    /\ result.payload.response # NoContextResponse


====
